---- MODULE Spec2Model ----
(***************************************************************************)
(* Ping log analysis of "Network Testing/Ping Analysis/ping-tool.py":      *)
(* analyze_ping_file, the packet-loss and latency statistics of            *)
(* generate_pdf_report / generate_summary_report, the log generators       *)
(* create_ping_file (create_test_files.py) and generate_test_files, the    *)
(* import guard of the module and the steps of analyze_ping_files after    *)
(* the file loop.                                                          *)
(*                                                                         *)
(* Units.  Latencies are integers counting 0.001 ms, the resolution of the *)
(* "time=" field the generators print; a latency before formatting counts  *)
(* 0.0001 ms.  Epoch timestamps are integers counting one clock unit.      *)
(* Quotients (packet loss, average) are kept exact as num/den pairs.       *)
(*                                                                         *)
(* A line of a log is a record of what the regular expressions of          *)
(* analyze_ping_file can see in it:                                        *)
(*   blank   line.strip() is empty                                         *)
(*   ping    how 'PING\s+(\S+)(?:\s+\((\S+)\))?' matches the line          *)
(*   prefix  the bracketed prefix of the line: "epoch" is [digits.digits], *)
(*           "date" is [Y-m-d H:M:S.mmm], "ctime" is [Mon Jan 01 ...]      *)
(*   ts      the number inside an "epoch" prefix                           *)
(*   seq     the digits after icmp_seq=, NoSeq when the line has none      *)
(*   time    the numeral after time= as <<whole, thousandths>>, <<>> when  *)
(*           the line has no time=<digits>                                 *)
(*   mac     the line holds a MAC address, xx:xx:xx:xx:xx:xx               *)
(*   private the address the PING pattern finds is a private IP address    *)
(***************************************************************************)
EXTENDS Integers, Sequences, FiniteSets, TLC

VARIABLES
    files,      \* the file names analyze_ping_files has taken up, the last is current
    readable,   \* whether open() of the current file succeeds
    lines,      \* the lines of the current file
    result,     \* what analyze_ping_file returned for the current file
    results,    \* the results dictionary of analyze_ping_files
    report,     \* what the report functions computed, in the order of the calls
    gen,        \* the local variables of the generator writing the current file
    OUI_DB,     \* the global OUI_DB: "empty" or "loaded"
    oui_cache,  \* the file oui_cache.json: "absent", "old" or "fresh"
    effects,    \* what the calls of analyze_ping_file did outside the program
    args,       \* the command line: visualize, pdf_output, output_file
    missing,    \* the third-party modules that are not installed
    called,     \* the last call of categorize_devices or evaluate_packet_loss:
                \* the function, its arguments and what it returned
    samba,      \* set_samba_acls.py: the local variables of main, the answers
                \* typed so far and the samba-tool commands run
    pc          \* "import", "exit", "write", "analyzed", "visualized", "pdf",
                \* "summary", "saved"

vars == <<files, readable, lines, result, results, report, gen, OUI_DB, oui_cache,
          effects, args, missing, called, samba, pc>>

NoSeq == -1
NoTs == -1

MkLine(blank, ping, prefix, ts, seq, time) ==
    [blank |-> blank, ping |-> ping, prefix |-> prefix, ts |-> ts,
     seq |-> seq, time |-> time, mac |-> FALSE, private |-> FALSE]

BlankLine == MkLine(TRUE, "none", "none", NoTs, NoSeq, <<>>)

\* 'PING <name> (<addr>) 56(84) bytes of data.'
HeaderLine == MkLine(FALSE, "name_addr", "none", NoTs, NoSeq, <<>>)

\* 'PING <addr>'
HeaderAddrLine == MkLine(FALSE, "addr", "none", NoTs, NoSeq, <<>>)

\* 'PING <name> (192.168.x.y) 56(84) bytes of data.'
PrivateHeaderLine == [HeaderLine EXCEPT !.private = TRUE]

\* '? (192.168.1.1) at aa:bb:cc:dd:ee:ff [ether] on eth0'
ArpLine == [MkLine(FALSE, "none", "none", NoTs, NoSeq, <<>>) EXCEPT !.mac = TRUE]

\* '--- <target> ping statistics ---', 'N packets transmitted, ... time 9012ms',
\* 'rtt min/avg/max/mdev = ...': no icmp_seq=, no time=
SummaryLine == MkLine(FALSE, "none", "none", NoTs, NoSeq, <<>>)

\* '[Mon Jan 01 12:00:00 2024]', the line generate_test_files writes after a reply
CtimeLine == MkLine(FALSE, "none", "ctime", NoTs, NoSeq, <<>>)

\* 'From <addr> icmp_seq=N Destination Host Unreachable'
UnreachableLine(prefix, ts, seq) == MkLine(FALSE, "none", prefix, ts, seq, <<>>)

\* 'Reply from <addr>: bytes=32 time=5ms TTL=64'
TimeOnlyLine(time) == MkLine(FALSE, "none", "none", NoTs, NoSeq, time)

\* '[prefix] 64 bytes from <addr>: icmp_seq=N ttl=64 time=F ms'
ReplyLine(prefix, ts, seq, time) == MkLine(FALSE, "none", prefix, ts, seq, time)

(***************************************************************************)
(* The regular expressions of analyze_ping_file.                           *)
(***************************************************************************)


\* a prefix test that takes any bracketed prefix for a timestamp
TsMatchAnyBracket(line) == line.prefix # "none"

\* re.search(r'^\[\d+\.\d+\]', line)
TsMatch(line) == line.prefix = "epoch"

\* re.search(r'icmp_seq=(\d+)', line)
SeqMatch(line) == line.seq # NoSeq

\* re.search(r'time=(\d+\.?\d*)', line)
TimeMatch(line) == line.time # <<>>


\* a pattern 'time=(\d+)' that stops at the decimal point
ParseFloatWhole(text) == text[1] * 1000

\* float(time_match.group(1)), in 0.001 ms
ParseFloat(text) == text[1] * 1000 + text[2]

\* the address the PING pattern finds in a header line: "lan addr" stands for
\* an address of 10/8, 172.16/12, 192.168/16 or 169.254/16, "addr" for another
AddressOf(line) == IF line.private THEN "lan addr" ELSE "addr"


\* the header match without 'if lines else None': lines[0] of an empty file
IpMatchUnguarded(ls) ==
    IF Len(ls) > 0
    THEN [raised |-> FALSE, m |-> ls[1].ping, addr |-> AddressOf(ls[1])]
    ELSE [raised |-> TRUE, m |-> "none", addr |-> "none"]

\* re.search(r'PING\s+(\S+)(?:\s+\((\S+)\))?', lines[0]) if lines else None
IpMatch(ls) ==
    IF Len(ls) > 0
    THEN [raised |-> FALSE, m |-> ls[1].ping, addr |-> AddressOf(ls[1])]
    ELSE [raised |-> FALSE, m |-> "none", addr |-> "none"]

\* any(re.search(r'^\[\d+\.\d+\]', line) for line in lines if line.strip())
HasTimestamps(ls) ==
    \E i \in 1..Len(ls) : ~ls[i].blank /\ TsMatch(ls[i])

\* Python truth value of 'timestamp': None and 0.0 are false
Truthy(timestamp) == timestamp # NoTs /\ timestamp # 0


\* a loop body that appends the sequence number and the latency independently
ParseLineUnpaired(acc, line, has_timestamps) ==
    IF line.blank
    THEN acc
    ELSE [sequences  |-> IF line.seq # NoSeq
                         THEN Append(acc.sequences, line.seq) ELSE acc.sequences,
          ping_times |-> IF line.time # <<>>
                         THEN Append(acc.ping_times, line.time[1] * 1000 + line.time[2])
                         ELSE acc.ping_times,
          timestamps |-> acc.timestamps]

\* one iteration of 'for line in lines'
ParseLine(acc, line, has_timestamps) ==
    IF line.blank
    THEN acc
    ELSE LET timestamp == IF has_timestamps /\ TsMatch(line) THEN line.ts ELSE NoTs
         IN  IF SeqMatch(line) /\ TimeMatch(line)
             THEN [sequences  |-> Append(acc.sequences, line.seq),
                   ping_times |-> Append(acc.ping_times, ParseFloat(line.time)),
                   timestamps |-> IF Truthy(timestamp)
                                  THEN Append(acc.timestamps, timestamp)
                                  ELSE acc.timestamps]
             ELSE acc

RECURSIVE ParseLines(_, _, _, _)
ParseLines(ls, i, has_timestamps, acc) ==
    IF i > Len(ls)
    THEN acc
    ELSE ParseLines(ls, i + 1, has_timestamps, ParseLine(acc, ls[i], has_timestamps))

(***************************************************************************)
(* Helpers standing for Python built-ins.                                  *)
(***************************************************************************)

SeqToSet(s) == {s[i] : i \in 1..Len(s)}

\* min(xs), max(xs) of a non-empty collection
Min(S) == CHOOSE x \in S : \A y \in S : x <= y

Max(S) == CHOOSE x \in S : \A y \in S : x >= y

\* sorted(S) of a set of integers
RECURSIVE SortedSet(_)
SortedSet(S) ==
    IF S = {} THEN <<>> ELSE <<Min(S)>> \o SortedSet(S \ {Min(S)})

\* sorted(xs) of a list: insertion of each element into the sorted rest
RECURSIVE Insert(_, _)
Insert(x, s) ==
    IF s = <<>> THEN <<x>>
    ELSE IF x <= Head(s) THEN <<x>> \o s
    ELSE <<Head(s)>> \o Insert(x, Tail(s))

RECURSIVE Sorted(_)
Sorted(s) == IF s = <<>> THEN <<>> ELSE Insert(Head(s), Sorted(Tail(s)))

\* sum(xs)
RECURSIVE Sum(_)
Sum(s) == IF s = <<>> THEN 0 ELSE Head(s) + Sum(Tail(s))

(***************************************************************************)
(* analyze_ping_file, after the loop over the lines.                       *)
(***************************************************************************)


\* a range that starts at the first reply instead of the smallest
ExpectedSequencesFromFirst(sequences) ==
    sequences[1] .. Max(SeqToSet(sequences))

\* range(min(sequences), max(sequences) + 1)
ExpectedSequences(sequences) ==
    Min(SeqToSet(sequences)) .. Max(SeqToSet(sequences))

\* 'Find missing sequences'
MissingSequences(sequences) ==
    IF sequences # <<>>
    THEN SortedSet(ExpectedSequences(sequences) \ SeqToSet(sequences))
    ELSE <<>>

Window == 10
MinIntervals == 5
Multiplier == 2


\* the median taken over all intervals instead of the last 10
LastWindowAll(intervals) == intervals

\* intervals[-10:]
LastWindow(intervals) ==
    SubSeq(intervals,
           IF Len(intervals) > Window THEN Len(intervals) - Window + 1 ELSE 1,
           Len(intervals))

\* sorted(intervals[-10:])[len(intervals[-10:]) // 2]
MedianInterval(intervals) ==
    Sorted(LastWindow(intervals))[(Len(LastWindow(intervals)) \div 2) + 1]

\* the test that appends to abnormal_intervals; intervals already holds interval
IsAbnormal(intervals, interval) ==
    /\ Len(intervals) > MinIntervals
    /\ interval > Multiplier * MedianInterval(intervals)

\* 'for i in range(1, len(timestamps))': i is the Python index, timestamps[i] is
\* timestamps[i + 1] here; acc holds intervals and abnormal_intervals
RECURSIVE IntervalLoop(_, _, _)
IntervalLoop(timestamps, i, acc) ==
    IF i >= Len(timestamps)
    THEN acc
    ELSE LET interval  == timestamps[i + 1] - timestamps[i]
             intervals == Append(acc.intervals, interval)
         IN  IntervalLoop(timestamps, i + 1,
                 [intervals |-> intervals,
                  abnormal_intervals |->
                      IF IsAbnormal(intervals, interval)
                      THEN Append(acc.abnormal_intervals,
                                  <<i - 1, i, interval, MedianInterval(intervals)>>)
                      ELSE acc.abnormal_intervals])

\* 'Calculate intervals between timestamps'
ComputeIntervals(timestamps) ==
    IF Len(timestamps) > 1
    THEN IntervalLoop(timestamps, 1, [intervals |-> <<>>, abnormal_intervals |-> <<>>])
    ELSE [intervals |-> <<>>, abnormal_intervals |-> <<>>]

\* the return values of analyze_ping_file
NoneResult == [kind |-> "None"]

RaisedResult(exc) == [kind |-> "raise", exc |-> exc]

\* 'if not ping_times: return None'
NoPings(ping_times) == ping_times = <<>>

\* re.search(r'([0-9A-Fa-f]{2}[:-]){5}([0-9A-Fa-f]{2})', filename)
MacInFilename(file) == file.mac

\* 'for line in lines: mac_in_line = re.search(...)'
MacInLines(ls) == \E i \in 1..Len(ls) : ls[i].mac

\* target_address after 'if ip_match:'; group(2) when the header has both
TargetAddress(ip_match) == IF ip_match.m = "none" THEN "Unknown" ELSE ip_match.addr

\* is_private_ip(ip); "Unknown" and "" are no IP addresses
IsPrivateAddress(ip) == ip = "lan addr"

\* is_private_ip(target_address)
IsPrivateIp(ls, ip_match) == IsPrivateAddress(TargetAddress(ip_match))

\* whether get_mac_from_ip runs 'arp -n <ip>'
ArpRuns(file, ls, ip_match) ==
    ~MacInFilename(file) /\ ~MacInLines(ls) /\ IsPrivateIp(ls, ip_match)

\* mac_address, named by where it was found
MacAddress(file, ls, ip_match, arp_found) ==
    IF MacInFilename(file) THEN "filename"
    ELSE IF MacInLines(ls) THEN "line"
    ELSE IF IsPrivateIp(ls, ip_match) /\ arp_found THEN "arp"
    ELSE "None"

\* load_oui_database: a cache younger than 30 days, else the download (saved
\* to the cache), else an old cache, else nothing
LoadOuiDatabase(cache, network) ==
    IF cache = "fresh"
    THEN [OUI_DB |-> "loaded", oui_cache |-> cache, effects |-> {}]
    ELSE IF network
    THEN [OUI_DB |-> "loaded", oui_cache |-> "fresh",
          effects |-> {"urlopen", "write oui_cache.json"}]
    ELSE IF cache = "old"
    THEN [OUI_DB |-> "loaded", oui_cache |-> cache, effects |-> {"urlopen"}]
    ELSE [OUI_DB |-> "empty", oui_cache |-> cache, effects |-> {"urlopen"}]

\* get_manufacturer_from_mac: 'if not OUI_DB: load_oui_database()', then the lookup
GetManufacturerFromMac(db, cache, env) ==
    LET loaded == IF db = "empty"
                  THEN LoadOuiDatabase(cache, env.network)
                  ELSE [OUI_DB |-> db, oui_cache |-> cache, effects |-> {}]
    IN  [manufacturer |-> IF loaded.OUI_DB = "loaded" /\ env.known
                          THEN "Vendor" ELSE "Unknown",
         OUI_DB       |-> loaded.OUI_DB,
         oui_cache    |-> loaded.oui_cache,
         effects      |-> loaded.effects]


\* a target_domain taken from group(1) of every header
TargetDomainAlways(ip_match) == IF ip_match.m # "none" THEN "name" ELSE "None"

\* target_domain after 'if ip_match:': group(1) only 'if ip_match.group(2)'
TargetDomain(ip_match) == IF ip_match.m = "name_addr" THEN "name" ELSE "None"

\* analyze_ping_file(filename): ret is the value returned, the other fields are
\* the global, the cache file and the outside effects after the call.  env is
\* what the surroundings answer: arp (ARP knows the address), network (the
\* download succeeds), known (the OUI is in the database)
AnalyzePingFile(name, can_read, ls, db, cache, env) ==
    IF ~can_read
    THEN [ret |-> NoneResult, OUI_DB |-> db, oui_cache |-> cache, effects |-> {}]
    ELSE LET ip_match       == IpMatch(ls)
             arp            == IF ArpRuns(name, ls, ip_match) THEN {"arp"} ELSE {}
             mac_address    == MacAddress(name, ls, ip_match, env.arp)
             has_timestamps == HasTimestamps(ls)
             parsed         == ParseLines(ls, 1, has_timestamps,
                                   [sequences |-> <<>>, ping_times |-> <<>>,
                                    timestamps |-> <<>>])
             iv             == ComputeIntervals(parsed.timestamps)
             man            == IF mac_address # "None"
                               THEN GetManufacturerFromMac(db, cache, env)
                               ELSE [manufacturer |-> "None", OUI_DB |-> db,
                                     oui_cache |-> cache, effects |-> {}]
         IN  IF ip_match.raised
             THEN [ret |-> RaisedResult("IndexError"), OUI_DB |-> db,
                   oui_cache |-> cache, effects |-> {}]
             ELSE IF NoPings(parsed.ping_times)
             THEN [ret |-> NoneResult, OUI_DB |-> db, oui_cache |-> cache,
                   effects |-> arp]
             ELSE [ret |->
                     [kind               |-> "analysis",
                      filename           |-> name,
                      ip                 |-> TargetAddress(ip_match),
                      domain             |-> TargetDomain(ip_match),
                      mac_address        |-> mac_address,
                      manufacturer       |-> man.manufacturer,
                      times              |-> parsed.ping_times,
                      sequences          |-> parsed.sequences,
                      timestamps         |-> parsed.timestamps,
                      missing_sequences  |-> MissingSequences(parsed.sequences),
                      intervals          |-> iv.intervals,
                      abnormal_intervals |-> iv.abnormal_intervals,
                      has_timestamps     |-> has_timestamps],
                   OUI_DB    |-> man.OUI_DB,
                   oui_cache |-> man.oui_cache,
                   effects   |-> arp \cup man.effects]

(***************************************************************************)
(* analyze_ping_files: the results dictionary, in insertion order, as a    *)
(* sequence of [name, data] entries.                                       *)
(***************************************************************************)

\* os.path.splitext(os.path.basename(file))[0]
DeviceName(file) == file.base

\* results[device_name] = result
RECURSIVE DictSet(_, _, _)
DictSet(d, name, data) ==
    IF d = <<>> THEN <<[name |-> name, data |-> data]>>
    ELSE IF Head(d).name = name THEN <<[name |-> name, data |-> data]>> \o Tail(d)
    ELSE <<Head(d)>> \o DictSet(Tail(d), name, data)


\* a file loop without 'if result:'
StoreResultUnchecked(d, file, res) == DictSet(d, DeviceName(file), res)

\* 'if result:' of the file loop
StoreResult(d, file, res) ==
    IF res.kind = "analysis" THEN DictSet(d, DeviceName(file), res) ELSE d

(***************************************************************************)
(* generate_pdf_report: packet loss of each device.  A percentage is the   *)
(* pair [num, den] standing for num / den * 100.                           *)
(***************************************************************************)

ZeroLoss == [num |-> 0, den |-> 1]

\* packet_loss before its first assignment
Unbound == [num |-> 0, den |-> 0]


\* the packet loss without the 'total_expected >= total_received' test
PacketLossOfUnclamped(device_data, prev) ==
    [num |-> Max(SeqToSet(device_data.sequences)) - Min(SeqToSet(device_data.sequences))
               + 1 - Len(device_data.sequences),
     den |-> Max(SeqToSet(device_data.sequences)) - Min(SeqToSet(device_data.sequences))
               + 1]

\* the body of 'for device_name, device_data in results.items()'; prev is the
\* value packet_loss has from the previous iteration
PacketLossOf(device_data, prev) ==
    IF device_data.sequences # <<>>
    THEN LET total_expected == Max(SeqToSet(device_data.sequences))
                                 - Min(SeqToSet(device_data.sequences)) + 1
             total_received == Len(device_data.sequences)
         IN  IF total_expected >= total_received
             THEN [num |-> total_expected - total_received, den |-> total_expected]
             ELSE ZeroLoss
    ELSE IF device_data.times # <<>>
    THEN LET total_missing  == Len(device_data.missing_sequences)
             total_received == Len(device_data.times)
             total_expected == total_received + total_missing
         IN  IF total_expected > 0
             THEN [num |-> total_missing, den |-> total_expected]
             ELSE ZeroLoss
    ELSE prev

RECURSIVE PacketLossLoop(_, _, _)
PacketLossLoop(d, i, prev) ==
    IF i > Len(d)
    THEN <<>>
    ELSE LET packet_loss == PacketLossOf(d[i].data, prev)
         IN  <<packet_loss>> \o PacketLossLoop(d, i + 1, packet_loss)

(***************************************************************************)
(* Latency statistics of generate_pdf_report and generate_summary_report.  *)
(* avg_time is the pair [num, den] standing for num / den.                 *)
(***************************************************************************)

\* all_times.extend(data['times']) for data in results.values()
RECURSIVE AllTimes(_)
AllTimes(d) == IF d = <<>> THEN <<>> ELSE Head(d).data.times \o AllTimes(Tail(d))

\* min(all_times) if all_times else 0
MinTime(all_times) == IF all_times # <<>> THEN Min(SeqToSet(all_times)) ELSE 0

\* max(all_times) if all_times else 0
MaxTime(all_times) == IF all_times # <<>> THEN Max(SeqToSet(all_times)) ELSE 0


\* the average without 'if all_times else 0'
AvgTimeUnguarded(all_times) == [num |-> Sum(all_times), den |-> Len(all_times)]

\* sum(all_times) / len(all_times) if all_times else 0
AvgTime(all_times) ==
    IF all_times # <<>>
    THEN [num |-> Sum(all_times), den |-> Len(all_times)]
    ELSE [num |-> 0, den |-> 1]

LatencyStats(d) ==
    [all_times |-> AllTimes(d),
     min_time  |-> MinTime(AllTimes(d)),
     max_time  |-> MaxTime(AllTimes(d)),
     avg_time  |-> AvgTime(AllTimes(d))]

\* device_data['packet_loss'] = packet_loss, for every device
WithPacketLoss(d, packet_loss) ==
    [i \in 1..Len(d) |->
        [name |-> d[i].name,
         data |-> [f \in DOMAIN d[i].data \cup {"packet_loss"} |->
                      IF f = "packet_loss" THEN packet_loss[i] ELSE d[i].data[f]]]]

(***************************************************************************)
(* generate_pdf_report: the groups of devices.  A device name is a string; *)
(* the substring tests of the code are answered from the table WordsIn.    *)
(***************************************************************************)

\* device_name.lower()
Lower(device_name) ==
    IF device_name = "VoIP-Gateway" THEN "voip-gateway" ELSE device_name

\* the words, of those the report looks for, that occur in a name
WordsIn(device_name) ==
    CASE device_name = "gateway-01"            -> {"gateway"}
      [] device_name = "switch-01"             -> {"switch"}
      [] device_name = "voip_provider-gateway" -> {"voip_provider", "voip", "gateway"}
      [] device_name = "gateway-switch"        -> {"gateway", "switch"}
      [] device_name = "switch-access_point"   -> {"switch", "access_point"}
      [] device_name = "access_point-voip"     -> {"access_point", "voip"}
      [] device_name = "voip-www"              -> {"voip", "www"}
      [] device_name = "www.example.com"       -> {"www", ".com"}
      [] device_name = "voip-gateway"          -> {"voip", "gateway"}
      [] OTHER                                 -> {}

\* 'word in device_name'
Contains(device_name, word) == word \in WordsIn(device_name)

\* get_device_network_profile(device_name, device_data)
GetDeviceNetworkProfile(device_name, device_data) ==
    LET is_lan == IsPrivateAddress(device_data.ip)
        is_voip_provider ==
            \/ Contains(Lower(device_name), "voip_provider")
            \/ Contains(Lower(device_name), "voip-provider")
            \/ Contains(Lower(device_name), "voip_service")
    IN  [is_lan           |-> is_lan,
         is_voip_provider |-> is_voip_provider,
         is_voip_device   |-> Contains(Lower(device_name), "voip") /\ ~is_voip_provider,
         is_web_service   |->
             /\ ~is_lan
             /\ \E word \in {"www", ".com", ".org", ".net", "web", "http"} :
                   Contains(Lower(device_name), word)]

\* 'if not profile['is_lan'] and 'hostname' not in device_data', and
\* lookup_hostname_for_ip finds a name: device_data['hostname'] = hostname
WithHostname(d, found) ==
    [i \in 1..Len(d) |->
        IF /\ ~GetDeviceNetworkProfile(d[i].name, d[i].data).is_lan
           /\ "hostname" \notin DOMAIN d[i].data
           /\ found
        THEN [name |-> d[i].name,
              data |-> [f \in DOMAIN d[i].data \cup {"hostname"} |->
                           IF f = "hostname" THEN "hostname" ELSE d[i].data[f]]]
        ELSE d[i]]

\* the eight dictionaries, each as the list of its keys
NoGroups ==
    [voip_providers |-> <<>>, gateways |-> <<>>, switches |-> <<>>,
     access_points |-> <<>>, voip_phones |-> <<>>, web_services |-> <<>>,
     lan_hosts |-> <<>>, public_hosts |-> <<>>]

\* group[device_name] = device_data
Put(groups, group, device_name) ==
    [groups EXCEPT ![group] =
        IF device_name \in SeqToSet(@) THEN @ ELSE Append(@, device_name)]

\* the tests of the grouping, each on its own instead of 'elif'
GroupDeviceEveryMatch(groups, device_name, device_data) ==
    LET profile == GetDeviceNetworkProfile(device_name, device_data)
        g1 == IF profile.is_voip_provider
              THEN Put(groups, "voip_providers", device_name) ELSE groups
        g2 == IF Contains(device_name, "gateway")
              THEN Put(g1, "gateways", device_name) ELSE g1
        g3 == IF Contains(device_name, "switch")
              THEN Put(g2, "switches", device_name) ELSE g2
        g4 == IF Contains(device_name, "access_point")
              THEN Put(g3, "access_points", device_name) ELSE g3
        g5 == IF profile.is_voip_device
              THEN Put(g4, "voip_phones", device_name) ELSE g4
        g6 == IF profile.is_web_service
              THEN Put(g5, "web_services", device_name) ELSE g5
    IN  IF IsPrivateAddress(device_data.ip)
        THEN Put(g6, "lan_hosts", device_name)
        ELSE Put(g6, "public_hosts", device_name)

\* the body of 'for device_name, device_data in results.items()' of the
\* grouping: the if/elif chain
GroupDevice(groups, device_name, device_data) ==
    LET profile == GetDeviceNetworkProfile(device_name, device_data)
    IN  IF profile.is_voip_provider
        THEN Put(groups, "voip_providers", device_name)
        ELSE IF Contains(device_name, "gateway")
        THEN Put(groups, "gateways", device_name)
        ELSE IF Contains(device_name, "switch")
        THEN Put(groups, "switches", device_name)
        ELSE IF Contains(device_name, "access_point")
        THEN Put(groups, "access_points", device_name)
        ELSE IF profile.is_voip_device
        THEN Put(groups, "voip_phones", device_name)
        ELSE IF profile.is_web_service
        THEN Put(groups, "web_services", device_name)
        ELSE IF IsPrivateAddress(device_data.ip)
        THEN Put(groups, "lan_hosts", device_name)
        ELSE Put(groups, "public_hosts", device_name)

RECURSIVE GroupDevices(_, _)
GroupDevices(d, groups) ==
    IF d = <<>> THEN groups
    ELSE GroupDevices(Tail(d), GroupDevice(groups, Head(d).name, Head(d).data))

\* the lines '**Gateways:** {len(gateways)}' of the summary, in the order they
\* are printed; a line is printed only 'if len(group) > 0'
GroupOrder ==
    <<"gateways", "switches", "access_points", "voip_providers", "voip_phones",
      "web_services", "lan_hosts", "public_hosts">>

GroupCounts(groups) ==
    [k \in {k \in 1..Len(GroupOrder) : Len(groups[GroupOrder[k]]) > 0} |->
        Len(groups[GroupOrder[k]])]

(***************************************************************************)
(* generate_pdf_report: the problematic devices and the device sections.   *)
(***************************************************************************)

\* a / b > c / d for quotients with positive denominators
Greater(a, b) == a.num * b.den > b.num * a.den

\* high_latency_threshold = avg_time * 1.5
HighLatencyThreshold(avg_time) == [num |-> 3 * avg_time.num, den |-> 2 * avg_time.den]

\* high_packet_loss_threshold = 5.0, as a quotient of the percentage
HighPacketLossThreshold == [num |-> 5, den |-> 100]

\* sum(device_data['times']) / len(device_data['times']) if device_data['times'] else 0
DeviceAvgTime(device_data) == AvgTime(device_data.times)

\* the criteria of a problematic device, with '>=' for the packet loss
IssueOfAtLeast(device_avg_time, packet_loss, high_latency_threshold) ==
    (IF Greater(device_avg_time, high_latency_threshold)
     THEN <<"high latency">> ELSE <<>>)
    \o (IF ~Greater(HighPacketLossThreshold, packet_loss)
        THEN <<"packet loss">> ELSE <<>>)

\* the list 'issue' of a device: the criteria it meets
IssueOf(device_avg_time, packet_loss, high_latency_threshold) ==
    (IF Greater(device_avg_time, high_latency_threshold)
     THEN <<"high latency">> ELSE <<>>)
    \o (IF Greater(packet_loss, HighPacketLossThreshold)
        THEN <<"packet loss">> ELSE <<>>)

\* 'for device_name, device_data in results.items()' of the problematic
\* devices, before the sort
RECURSIVE ProblematicLoop(_, _)
ProblematicLoop(d, high_latency_threshold) ==
    IF d = <<>> THEN <<>>
    ELSE LET device_data == Head(d).data
             issue == IssueOf(DeviceAvgTime(device_data), device_data.packet_loss,
                              high_latency_threshold)
         IN  (IF issue # <<>>
              THEN <<[name        |-> Head(d).name,
                      ip          |-> device_data.ip,
                      avg_time    |-> DeviceAvgTime(device_data),
                      packet_loss |-> device_data.packet_loss,
                      issue       |-> issue]>>
              ELSE <<>>)
             \o ProblematicLoop(Tail(d), high_latency_threshold)

\* the key (packet_loss, avg_time) of a is below the key of b
SeverityBelow(a, b) ==
    \/ Greater(b.packet_loss, a.packet_loss)
    \/ /\ ~Greater(a.packet_loss, b.packet_loss)
       /\ Greater(b.avg_time, a.avg_time)

\* problematic_devices.sort(key=..., reverse=True): equal keys keep their order
RECURSIVE InsertBySeverity(_, _)
InsertBySeverity(sorted, device) ==
    IF sorted = <<>> THEN <<device>>
    ELSE IF SeverityBelow(Head(sorted), device) THEN <<device>> \o sorted
    ELSE <<Head(sorted)>> \o InsertBySeverity(Tail(sorted), device)

RECURSIVE SortBySeverity(_)
SortBySeverity(devices) ==
    IF devices = <<>> THEN <<>>
    ELSE InsertBySeverity(SortBySeverity(SubSeq(devices, 1, Len(devices) - 1)),
                          devices[Len(devices)])

ProblematicDevices(d, avg_time) ==
    SortBySeverity(ProblematicLoop(d, HighLatencyThreshold(avg_time)))

\* the device names in the order of sorted()
NameOrder ==
    <<"VoIP-Gateway", "aa-bb-cc-dd-ee-ff", "access_point-voip", "gateway-01",
      "gateway-switch", "host-01", "switch-01", "switch-access_point", "voip-www",
      "voip_provider-gateway", "www.example.com">>

\* sorted(group.items()): the keys of a group in the order of sorted()
SortedNames(names) ==
    LET at == {k \in 1..Len(NameOrder) : NameOrder[k] \in SeqToSet(names)}
    IN  [i \in 1..Cardinality(at) |->
            NameOrder[CHOOSE k \in at : Cardinality({j \in at : j < k}) = i - 1]]

\* results[device_name]
DictGet(d, device_name) ==
    d[CHOOSE i \in 1..Len(d) : d[i].name = device_name].data

\* the sections of the devices, in the order they are rendered
SectionOrder ==
    <<"gateways", "switches", "access_points", "voip_providers", "voip_phones",
      "web_services", "lan_hosts", "public_hosts">>

\* the devices in the order their rows are rendered
RECURSIVE RenderedFrom(_, _)
RenderedFrom(groups, k) ==
    IF k > Len(SectionOrder) THEN <<>>
    ELSE SortedNames(groups[SectionOrder[k]]) \o RenderedFrom(groups, k + 1)

Rendered(groups) == RenderedFrom(groups, 1)

\* avg_time after the device sections: each row assigns
\* 'avg_time = sum(device_data['times']) / len(device_data['times']) ...'
AvgTimeAfterSections(d, rendered, avg_time) ==
    IF rendered = <<>> THEN avg_time
    ELSE DeviceAvgTime(DictGet(d, rendered[Len(rendered)]))

\* generate_pdf_report(results, output_file): what it computes before the
\* document is rendered, and the results dictionary it leaves
\* env.renders: markdown and weasyprint write the document without an
\* exception; env.hostname: lookup_hostname_for_ip finds a name
\* The entry of a document holds what its text prints: the counts of the
\* summary, the overall statistics, the problematic devices, and the threshold
\* and the network average of 'Recommended Actions'
PdfEnvironments == [renders : BOOLEAN, hostname : BOOLEAN]

PdfReport(d, output_file, env) ==
    LET packet_loss == PacketLossLoop(d, 1, Unbound)
    IN  IF \E i \in 1..Len(packet_loss) : packet_loss[i] = Unbound
        THEN [out     |-> <<[kind |-> "raise", exc |-> "UnboundLocalError"]>>,
              results |-> d]
        ELSE LET after    == WithHostname(WithPacketLoss(d, packet_loss), env.hostname)
                 groups   == GroupDevices(after, NoGroups)
                 stats    == LatencyStats(after)
                 problematic_devices == ProblematicDevices(after, stats.avg_time)
                 avg_time == AvgTimeAfterSections(after, Rendered(groups), stats.avg_time)
             IN  IF ~env.renders
                 THEN [out     |-> <<[kind |-> "raise", exc |-> "Exception"]>>,
                       results |-> after]
                 ELSE [out     |-> <<[kind |-> "pdf", file |-> output_file,
                                      stats |-> stats,
                                      total_devices |-> Len(after),
                                      groups |-> groups,
                                      group_counts |-> GroupCounts(groups),
                                      problematic_devices |-> problematic_devices,
                                      high_latency_threshold |->
                                          HighLatencyThreshold(stats.avg_time),
                                      network_average |-> avg_time]>>,
                       results |-> after]

\* generate_summary_report(results, skip_pdf=True) renders no document
NoPdf == [renders |-> FALSE, hostname |-> FALSE]

\* len(device_results): the number of keys of a result dictionary
DictLen(data) == Cardinality(DOMAIN data \ {"kind"})

\* sum(len(device_results) for device_results in results.values())
RECURSIVE TotalFiles(_)
TotalFiles(d) == IF d = <<>> THEN 0 ELSE DictLen(Head(d).data) + TotalFiles(Tail(d))

\* generate_summary_report(results, skip_pdf): the statistics it prints, then
\* generate_pdf_report unless skip_pdf
SummaryReport(d, skip_pdf, env) ==
    LET summary == [kind |-> "summary", total_files |-> TotalFiles(d),
                    stats |-> LatencyStats(d)]
        pdf     == PdfReport(d, "ping_analysis_report.pdf", env)
    IN  IF skip_pdf
        THEN [out |-> <<summary>>, results |-> d]
        ELSE [out |-> <<summary>> \o pdf.out, results |-> pdf.results]

(***************************************************************************)
(* categorize_devices.  An item is a string; what the regular expressions  *)
(* and substring tests of the code find in it is answered from tables.     *)
(***************************************************************************)

\* the keys of device_types, in the order of the dictionary
DeviceTypes == <<"ap", "gw", "switch", "fw", "voip", "host">>

\* is_mac_address_in_filename(item)
IsMacAddressInFilename(item) == item = "aa-bb-cc-dd-ee-ff-ap.log"

\* the device types one of whose patterns is found in the lowercase basename
FileMatches(item) ==
    CASE item = "aa-bb-cc-dd-ee-ff-ap.log" -> {"ap"}
      [] item = "gw-switch.log"            -> {"gw", "switch"}
      [] item = "VoIP-7"                   -> {"voip"}
      [] item = "fw-8.8.8.8.log"           -> {"fw"}
      [] item = "host-01.log"              -> {"host"}
      [] OTHER                             -> {}

\* the device types one of whose identifiers is a substring of item.lower()
TargetMatches(item) ==
    CASE item = "aa-bb-cc-dd-ee-ff-ap.log" -> {"ap"}
      [] item = "gw-switch.log"            -> {"gw", "switch"}
      [] item = "VoIP-7"                   -> {"voip"}
      [] item = "fw-8.8.8.8.log"           -> {"fw"}
      [] item = "host-01.log"              -> {"host"}
      [] item = "laptop"                   -> {"ap"}
      [] OTHER                             -> {}

\* re.search(ip_pattern, item)
IpSearch(item) == item \in {"fw-8.8.8.8.log", "192.168.1.1", "8.8.8.8"}

\* re.match(ip_pattern, item)
IpAtStart(item) == item \in {"192.168.1.1", "8.8.8.8"}

\* is_private_ip(item)
IsPrivateItem(item) == item = "192.168.1.1"

\* the first key of device_types with a match, 'for category, identifiers in
\* device_types.items()'
FirstType(matches) ==
    IF matches = {} THEN "none"
    ELSE DeviceTypes[Min({k \in 1..Len(DeviceTypes) : DeviceTypes[k] \in matches})]

\* the dictionary 'categories' before the loop, as the list of its entries
TargetCategories ==
    <<"Gateways", "Switches", "Access Points", "VOIP Handsets", "Public Hosts",
      "LAN Hosts">>

FileCategories == <<"mac", "ap", "gw", "switch", "fw", "host", "ip", "other">>

NewCategories(item_type) ==
    LET names == IF item_type = "target" THEN TargetCategories ELSE FileCategories
    IN  [k \in 1..Len(names) |-> [name |-> names[k], items |-> <<>>]]

\* 'category in categories'
HasCategory(categories, category) ==
    \E k \in 1..Len(categories) : categories[k].name = category

\* categories[category].append(item); a missing key raises KeyError
AppendItem(state, category, item) ==
    IF state.kind = "raise" THEN state
    ELSE IF ~HasCategory(state.categories, category)
    THEN [kind |-> "raise", exc |-> "KeyError"]
    ELSE [kind |-> "ok",
          categories |->
              [k \in 1..Len(state.categories) |->
                  IF state.categories[k].name = category
                  THEN [name |-> category,
                        items |-> Append(state.categories[k].items, item)]
                  ELSE state.categories[k]]]

\* the branch of a file name, from the device types on
CategorizeByName(state, item) ==
    LET category == FirstType(FileMatches(item))
    IN  IF category # "none"
        THEN IF HasCategory(state.categories, category)
             THEN AppendItem(state, category, item)
             ELSE AppendItem(state, "other", item)
        ELSE IF IpSearch(item)
        THEN AppendItem(state, "ip", item)
        ELSE AppendItem(state, "other", item)

\* the branch of a target
CategorizeTarget(state, item) ==
    LET device_type == FirstType(TargetMatches(item))
    IN  IF IpAtStart(item)
        THEN IF IsPrivateItem(item)
             THEN AppendItem(state, "LAN Hosts", item)
             ELSE AppendItem(state, "Public Hosts", item)
        ELSE IF device_type = "gw" THEN AppendItem(state, "Gateways", item)
        ELSE IF device_type = "switch" THEN AppendItem(state, "Switches", item)
        ELSE IF device_type = "ap" THEN AppendItem(state, "Access Points", item)
        ELSE IF device_type = "voip" THEN AppendItem(state, "VOIP Handsets", item)
        ELSE AppendItem(state, "LAN Hosts", item)

\* the body of 'for item in items' without the 'continue' after the MAC test
CategorizeItemFallThrough(state, item, item_type) ==
    IF item_type = "file"
    THEN IF IsMacAddressInFilename(item)
         THEN CategorizeByName(AppendItem(state, "mac", item), item)
         ELSE CategorizeByName(state, item)
    ELSE CategorizeTarget(state, item)

\* the body of 'for item in items'
CategorizeItem(state, item, item_type) ==
    IF item_type = "file"
    THEN IF IsMacAddressInFilename(item)
         THEN AppendItem(state, "mac", item)
         ELSE CategorizeByName(state, item)
    ELSE CategorizeTarget(state, item)

RECURSIVE CategorizeLoop(_, _, _)
CategorizeLoop(state, items, item_type) ==
    IF items = <<>> \/ state.kind = "raise" THEN state
    ELSE CategorizeLoop(CategorizeItem(state, Head(items), item_type), Tail(items),
                        item_type)

\* {k: v for k, v in categories.items() if v}
RECURSIVE NonEmpty(_)
NonEmpty(categories) ==
    IF categories = <<>> THEN <<>>
    ELSE (IF Head(categories).items # <<>> THEN <<Head(categories)>> ELSE <<>>)
         \o NonEmpty(Tail(categories))

\* categorize_devices(items, item_type)
CategorizeDevices(items, item_type) ==
    LET state == CategorizeLoop([kind |-> "ok", categories |-> NewCategories(item_type)],
                                items, item_type)
    IN  IF state.kind = "raise" THEN state
        ELSE [kind |-> "return", categories |-> NonEmpty(state.categories)]

(***************************************************************************)
(* evaluate_packet_loss.  packet_loss is in 0.01 percent.                  *)
(***************************************************************************)

\* evaluate_packet_loss(packet_loss, is_lan, is_voip, is_web): the tuple
\* (status, description)
EvaluatePacketLoss(packet_loss, is_lan, is_voip, is_web) ==
    IF is_voip
    THEN IF packet_loss = 0 THEN <<"optimal", "Optimal (0%)">>
         ELSE IF packet_loss < 100
         THEN <<"acceptable", "Acceptable for VoIP (under 1%)">>
         ELSE <<"investigate", "Poor for VoIP - investigate immediately (over 1%)">>
    ELSE IF is_web
    THEN IF packet_loss = 0 THEN <<"optimal", "Optimal (0%)">>
         ELSE IF packet_loss < 200
         THEN <<"acceptable", "Acceptable for web services (under 2%)">>
         ELSE <<"investigate", "Poor for web services - investigate (over 2%)">>
    ELSE IF is_lan
    THEN IF packet_loss = 0 THEN <<"optimal", "Optimal (0%)">>
         ELSE IF packet_loss < 50
         THEN <<"acceptable", "Acceptable (0.1-0.5%)">>
         ELSE <<"investigate", "Poor - investigate immediately (over 0.5%)">>
    ELSE IF packet_loss = 0 THEN <<"optimal", "Optimal (0%)">>
         ELSE IF packet_loss < 100
         THEN <<"acceptable", "Acceptable (0.1-1%)">>
         ELSE IF packet_loss < 250
         THEN <<"impact", "May impact real-time applications (1-2.5%)">>
         ELSE <<"investigate", "Poor - investigate immediately (over 2.5%)">>

(***************************************************************************)
(* set_samba_acls.py.  A row of the CSV file is a record of its columns;   *)
(* an entry of a path is the place of its row in the file.                 *)
(***************************************************************************)

\* row['Path'].strip('"')
StripQuotes(path) == IF path = "\"X:\\Share\"" THEN "X:\\Share" ELSE path

\* the places of the rows of a path, in the order of the file
EntriesOfAnyPath(rows, path) == [k \in 1..Len(rows) |-> k]

\* permissions_by_path[path] of read_csv_file: the rows are appended to the
\* list of their path as the reader yields them
RECURSIVE EntriesOf(_, _)
EntriesOf(rows, path) ==
    IF rows = <<>> THEN <<>>
    ELSE EntriesOf(SubSeq(rows, 1, Len(rows) - 1), path)
         \o (IF StripQuotes(rows[Len(rows)].Path) = path THEN <<Len(rows)>> ELSE <<>>)

\* the paths in the order of sorted()
PathOrder == <<"Share", "X:\\Data", "X:\\Share">>

\* get_unique_paths(permissions): sorted(list(permissions.keys()))
GetUniquePaths(rows) ==
    LET keys == {StripQuotes(rows[k].Path) : k \in 1..Len(rows)}
        at   == {k \in 1..Len(PathOrder) : PathOrder[k] \in keys}
    IN  [i \in 1..Cardinality(at) |->
            PathOrder[CHOOSE k \in at : Cardinality({j \in at : j < k}) = i - 1]]

\* convert_windows_path_to_samba(windows_path): split(':', 1)[1] of a path
\* without a colon raises IndexError
ConvertWindowsPathToSamba(windows_path) ==
    CASE windows_path = "X:\\Share" ->
             [kind |-> "return",
              path |-> "/srv/vg0/d3da3351-2b94-4587-9863-a5d797c836fa/current/Share"]
      [] windows_path = "X:\\Data" ->
             [kind |-> "return",
              path |-> "/srv/vg0/d3da3351-2b94-4587-9863-a5d797c836fa/current/Data"]
      [] OTHER -> [kind |-> "raise", exc |-> "IndexError"]

\* int(text) of the selection: an integer or ValueError
IntValue(value) == [kind |-> "int", value |-> value]

ParseInt(text) ==
    CASE text = "0"   -> IntValue(0)
      [] text = "00"  -> IntValue(0)
      [] text = "1"   -> IntValue(1)
      [] text = "+1"  -> IntValue(1)
      [] text = " 2 " -> IntValue(2)
      [] text = "3"   -> IntValue(3)
      [] text = "4"   -> IntValue(4)
      [] text = "-1"  -> IntValue(-1)
      [] OTHER        -> [kind |-> "ValueError"]

\* a test of the selection that lets the number after the last pass
SelectionUpToNext(selection, unique_paths) ==
    1 <= selection /\ selection <= Len(unique_paths) + 1

\* '1 <= selection <= len(unique_paths)'
SelectionInRange(selection, unique_paths) ==
    1 <= selection /\ selection <= Len(unique_paths)

\* unique_paths[selection - 1], with the negative indices of a list
PathAt(unique_paths, index) ==
    IF 0 <= index /\ index < Len(unique_paths)
    THEN [kind |-> "return", path |-> unique_paths[index + 1]]
    ELSE IF -Len(unique_paths) <= index /\ index < 0
    THEN [kind |-> "return", path |-> unique_paths[Len(unique_paths) + index + 1]]
    ELSE [kind |-> "raise", exc |-> "IndexError"]

\* answer.lower()
LowerAnswer(answer) ==
    CASE answer = "Y"   -> "y"
      [] answer = "N"   -> "n"
      [] answer = "Yes" -> "yes"
      [] OTHER          -> answer

\* "FULL" if "FullControl" in windows_perms else "READ"
SambaPerms(windows_perms) ==
    IF windows_perms \in {"FullControl", "FullControl, Synchronize"}
    THEN "FULL" ELSE "READ"

\* main before it read the file: the file, and nothing entered or invoked
SambaStart(file) ==
    [pc |-> "start", file |-> file, rows |-> <<>>, unique_paths |-> <<>>,
     asked |-> 0, input |-> "none", selection |-> [kind |-> "unbound"],
     selected_path |-> "none",
     samba_path |-> "none", prompted |-> <<>>, answers |-> <<>>, invoked |-> <<>>,
     exc |-> "none"]

\* main, lines 47-56: a missing file raises FileNotFoundError
ReadCsvFile(s) ==
    IF ~s.file.exists
    THEN [s EXCEPT !.pc = "raise", !.exc = "FileNotFoundError"]
    ELSE [s EXCEPT !.pc = "select", !.rows = s.file.rows,
                   !.unique_paths = GetUniquePaths(s.file.rows)]

\* one pass of 'while True:', and after 'break' lines 70-71
SelectShare(s, text) ==
    LET asked  == [s EXCEPT !.asked = @ + 1, !.input = text]
        parsed == ParseInt(text)
    IN  IF parsed.kind = "ValueError" THEN asked
        ELSE IF parsed.value = 0 THEN [asked EXCEPT !.pc = "exit", !.selection = parsed]
        ELSE IF ~SelectionInRange(parsed.value, s.unique_paths) THEN asked
        ELSE LET selected_path == PathAt(s.unique_paths, parsed.value - 1)
             IN  IF selected_path.kind = "raise"
                 THEN [asked EXCEPT !.pc = "raise", !.selection = parsed,
                                    !.exc = selected_path.exc]
                 ELSE LET samba_path == ConvertWindowsPathToSamba(selected_path.path)
                      IN  IF samba_path.kind = "raise"
                          THEN [asked EXCEPT !.pc = "raise", !.selection = parsed,
                                             !.selected_path = selected_path.path,
                                             !.exc = samba_path.exc]
                          ELSE [asked EXCEPT !.pc = "prompt", !.selection = parsed,
                                             !.selected_path = selected_path.path,
                                             !.samba_path = samba_path.path]

\* one pass of 'for perm in permissions_by_path[selected_path]:'; ran is what
\* subprocess.run does with samba-tool: "ok", "CalledProcessError" (printed)
\* or "FileNotFoundError" (not caught)
ConfirmEntry(s, answer, ran) ==
    LET entries == EntriesOf(s.rows, s.selected_path)
        entry   == entries[Len(s.prompted) + 1]
        seen    == [s EXCEPT !.prompted = Append(@, entry),
                             !.answers = Append(@, answer)]
        last    == Len(seen.prompted) = Len(entries)
    IN  IF LowerAnswer(answer) = "y"
        THEN LET applied ==
                     [seen EXCEPT !.invoked =
                         Append(@, [entry       |-> entry,
                                    samba_path  |-> s.samba_path,
                                    principal   |-> s.rows[entry].GroupUser,
                                    permissions |-> SambaPerms(s.rows[entry].Permissions)])]
             IN  IF ran = "FileNotFoundError"
                 THEN [applied EXCEPT !.pc = "raise", !.exc = ran]
                 ELSE [applied EXCEPT !.pc = IF last THEN "done" ELSE "prompt"]
        ELSE [seen EXCEPT !.pc = IF last THEN "done" ELSE "prompt"]

(***************************************************************************)
(* The generators: create_ping_file of create_test_files.py and            *)
(* generate_test_files of ping-tool.py.  gen.seqs and gen.raw are the      *)
(* sequence numbers and latencies (in 0.0001 ms) of the replies written.   *)
(***************************************************************************)

\* f"{ping_time:.3f}" as <<whole, thousandths>>; a latency is positive, and a
\* value halfway between two thousandths is rounded either way by the binary
\* value of the float: RawLatencies holds none
FormatTime3(raw) ==
    LET rounded == (raw + 5) \div 10
    IN  <<rounded \div 1000, rounded % 1000>>

NoGen == [kind |-> "none", seq |-> 0, sent |-> 0, seqs |-> <<>>, raw |-> <<>>]

\* create_ping_file: one iteration of 'for i, timestamp in enumerate(timestamps)'
CreatePingFileStep(g, ls, is_lost, ping_time) ==
    [gen   |-> [g EXCEPT !.seq = g.seq + 1, !.sent = g.sent + 1,
                         !.seqs = IF is_lost THEN @ ELSE Append(@, g.seq),
                         !.raw = IF is_lost THEN @ ELSE Append(@, ping_time)],
     lines |-> IF is_lost THEN ls
               ELSE Append(ls, ReplyLine("date", NoTs, g.seq, FormatTime3(ping_time)))]

\* generate_test_files: one iteration of 'while current_time < session_end'
GenerateTestFilesStep(g, ls, packet_lost, ping_time) ==
    [gen   |-> [g EXCEPT !.seq = g.seq + 1, !.sent = g.sent + 1,
                         !.seqs = IF packet_lost THEN @ ELSE Append(@, g.seq + 1),
                         !.raw = IF packet_lost THEN @ ELSE Append(@, ping_time)],
     lines |-> IF packet_lost THEN ls
               ELSE ls \o <<ReplyLine("none", NoTs, g.seq + 1, FormatTime3(ping_time)),
                            CtimeLine>>]

\* 'Write ping summary' of create_ping_file: '\n--- ... ---\n' and two more lines
CreatePingFileSummary(g, ls) ==
    IF Len(g.seqs) > 0
    THEN ls \o <<BlankLine, SummaryLine, SummaryLine, SummaryLine>>
    ELSE ls

\* 'Write summary statistics' of generate_test_files
GenerateTestFilesSummary(g, ls) == ls \o <<BlankLine, SummaryLine, SummaryLine>>

(***************************************************************************)
(* Inputs.                                                                 *)
(***************************************************************************)

MaxLines == 3
MaxSeq == 5
MaxSeqLines == 4
MaxStatLines == 2
MaxTsLines == 12
MaxGenPings == 4
MaxMixedLines == 8

\* file names; mac: the name holds a MAC address
FileNames ==
    {[dir |-> "logs", base |-> "gateway-01", ext |-> ".log", mac |-> FALSE],
     [dir |-> "logs", base |-> "switch-01", ext |-> ".log", mac |-> FALSE]}

OneFile == {[dir |-> "logs", base |-> "gateway-01", ext |-> ".log", mac |-> FALSE]}

\* logs/gateway-01.log, archive/gateway-01.log and logs/gateway-01.txt
SameNames ==
    {[dir |-> "logs", base |-> "gateway-01", ext |-> ".log", mac |-> FALSE],
     [dir |-> "archive", base |-> "gateway-01", ext |-> ".log", mac |-> FALSE],
     [dir |-> "logs", base |-> "gateway-01", ext |-> ".txt", mac |-> FALSE]}

MacFile == {[dir |-> "logs", base |-> "aa-bb-cc-dd-ee-ff", ext |-> ".log", mac |-> TRUE]}

\* the lines of a captured log, with and without ping -D
Lines ==
    {BlankLine, HeaderLine, HeaderAddrLine, PrivateHeaderLine, ArpLine, SummaryLine,
     CtimeLine,
     UnreachableLine("none", NoTs, 1), UnreachableLine("epoch", 11, 2),
     TimeOnlyLine(<<5, 0>>),
     ReplyLine("none", NoTs, 1, <<1, 500>>), ReplyLine("none", NoTs, 2, <<2, 0>>),
     ReplyLine("date", NoTs, 2, <<1, 500>>),
     ReplyLine("epoch", 10, 1, <<1, 500>>), ReplyLine("epoch", 12, 2, <<2, 0>>),
     ReplyLine("epoch", 0, 1, <<2, 0>>)}

\* replies in any order, with repeated and skipped sequence numbers
SeqLines == {ReplyLine("none", NoTs, s, <<1, 0>>) : s \in 1..MaxSeq}

\* replies with latencies 1.0, 2.0 and 3.0 ms
StatLines == {ReplyLine("none", NoTs, 1, <<t, 0>>) : t \in 1..3}

\* the gaps between two replies of a log captured with ping -D
Gaps == {1, 3}

FirstTs == 100

\* latencies of the generators, in 0.0001 ms: 0.2, 1.2344, 0.9996
RawLatencies == {2000, 12344, 9996}

\* the devices of a report, in the order their logs are analysed
MaxDevices == 2

DeviceList ==
    <<[dir |-> "logs", base |-> "voip_provider-gateway", ext |-> ".log", mac |-> FALSE],
      [dir |-> "logs", base |-> "gateway-switch", ext |-> ".log", mac |-> FALSE],
      [dir |-> "logs", base |-> "switch-access_point", ext |-> ".log", mac |-> FALSE],
      [dir |-> "logs", base |-> "access_point-voip", ext |-> ".log", mac |-> FALSE],
      [dir |-> "logs", base |-> "voip-www", ext |-> ".log", mac |-> FALSE],
      [dir |-> "logs", base |-> "www.example.com", ext |-> ".log", mac |-> FALSE],
      [dir |-> "logs", base |-> "host-01", ext |-> ".log", mac |-> FALSE],
      [dir |-> "logs", base |-> "VoIP-Gateway", ext |-> ".log", mac |-> FALSE]>>

\* replies with the sequence numbers seqs, each of the latency time
Replies(seqs, time) == [i \in 1..Len(seqs) |-> ReplyLine("none", NoTs, seqs[i], time)]

\* 19 of 20 replies: a packet loss of exactly 5 percent
NineteenOfTwenty == [i \in 1..19 |-> IF i < 10 THEN i ELSE i + 1]

\* the logs of a device: one reply of 1, 3 or 5 ms, two of three replies of
\* 5 ms, 19 of 20 replies of 1 ms, and one reply from a private address
DeviceLogs ==
    {<<HeaderLine>> \o Replies(<<1>>, <<t, 0>>) : t \in {1, 3, 5}}
    \cup {<<HeaderLine>> \o Replies(<<1, 3>>, <<5, 0>>),
          <<HeaderLine>> \o Replies(NineteenOfTwenty, <<1, 0>>),
          <<PrivateHeaderLine>> \o Replies(<<1>>, <<1, 0>>)}

\* the items of a call of categorize_devices, and the values of item_type:
\* the two the callers pass and one that is neither
MaxItems == 3

Items ==
    {"aa-bb-cc-dd-ee-ff-ap.log", "gw-switch.log", "VoIP-7", "fw-8.8.8.8.log",
     "host-01.log", "192.168.1.1", "8.8.8.8", "notes.txt", "laptop"}

ItemLists == UNION {[1..n -> Items] : n \in 0..MaxItems}

ItemTypes == {"target", "file", "mac"}

\* packet losses in 0.01 percent, at and around the thresholds
LossValues ==
    {0, 1, 10, 49, 50, 51, 99, 100, 101, 199, 200, 201, 249, 250, 251, 500, 10000}

\* the rows of X-drive-permissions_20241130_153659.csv: at most MaxRows rows
\* of a share, of the same share written in quotes, of a second share, and of
\* a path without a drive letter
MaxRows == 3

MaxSelections == 3

CsvRows ==
    {[Path |-> "X:\\Share", GroupUser |-> "Admins", Permissions |-> "FullControl"],
     [Path |-> "\"X:\\Share\"", GroupUser |-> "Users", Permissions |-> "Modify, Synchronize"],
     [Path |-> "X:\\Data", GroupUser |-> "Users", Permissions |-> "ReadAndExecute"],
     [Path |-> "Share", GroupUser |-> "Guests", Permissions |-> "FullControl, Synchronize"]}

CsvFiles ==
    {[exists |-> FALSE, rows |-> <<>>]}
    \cup {[exists |-> TRUE, rows |-> rows] :
             rows \in UNION {[1..n -> CsvRows] : n \in 0..MaxRows}}

\* what the user types at the selection and at a confirmation
SelectionInputs == {"abc", "", "0", "00", "1", "+1", " 2 ", "3", "4", "-1", "2.0"}

Answers == {"y", "Y", "n", "yes", ""}

(***************************************************************************)
(* Actions.                                                                *)
(***************************************************************************)

\* what the machine around the program answers: arp finds the address, the
\* OUI download succeeds, the manufacturer's prefix is in the database
Environments == [arp : BOOLEAN, network : BOOLEAN, known : BOOLEAN]

NotRun == [kind |-> "NotRun"]

\* no function was called; set_samba_acls.py was not started
NoCall == [fn |-> "none"]

NoSamba == [pc |-> "none"]

\* the third-party modules of the import guard, and those that plot or render
Libraries == {"matplotlib", "numpy", "reportlab", "markdown", "weasyprint", "pytz"}

RenderingLibraries == {"matplotlib", "reportlab", "markdown", "weasyprint"}

\* --visualize, --pdf <file>, --output <file>
Flags == [visualize : BOOLEAN, pdf_output : BOOLEAN, output_file : BOOLEAN]

NoFlags == [visualize |-> FALSE, pdf_output |-> FALSE, output_file |-> FALSE]

PdfFlag == [visualize |-> FALSE, pdf_output |-> TRUE, output_file |-> FALSE]

\* the state after the imports of the module succeeded
InitWith(names, readables, caches, flags) ==
    /\ args \in flags
    /\ missing = {}
    /\ called = NoCall
    /\ samba = NoSamba
    /\ files \in {<<f>> : f \in names}
    /\ readable \in readables
    /\ lines = <<>>
    /\ result = NotRun
    /\ results = <<>>
    /\ report = <<>>
    /\ gen = NoGen
    /\ OUI_DB = "empty"
    /\ oui_cache \in caches
    /\ effects = {}
    /\ pc = "write"

\* the log gets one more line before it is analysed
WriteLine(line, max) ==
    /\ pc = "write"
    /\ readable
    /\ gen.kind = "none"
    /\ Len(lines) < max
    /\ lines' = Append(lines, line)
    /\ UNCHANGED <<files, readable, result, results, report, gen, OUI_DB, oui_cache,
                   effects, pc, args, missing,
                   called, samba>>

WriteAny == \E line \in Lines : WriteLine(line, MaxLines)

WriteSeq == \E line \in SeqLines : WriteLine(line, MaxSeqLines)

WriteStat == \E line \in StatLines : WriteLine(line, MaxStatLines)

\* ping -D appends the next reply, a gap after the previous one
WriteTs ==
    \E gap \in Gaps :
        WriteLine(ReplyLine("epoch",
                            IF lines = <<>> THEN FirstTs ELSE lines[Len(lines)].ts + gap,
                            Len(lines) + 1, <<1, 0>>),
                  MaxTsLines)

\* the timestamp of the last line of ls that has one
RECURSIVE LastTs(_)
LastTs(ls) ==
    IF ls = <<>> THEN NoTs
    ELSE IF ls[Len(ls)].prefix = "epoch" THEN ls[Len(ls)].ts
    ELSE LastTs(SubSeq(ls, 1, Len(ls) - 1))

\* a capture appended to by ping with and without -D: the next reply carries
\* a timestamp or none
WriteMixed ==
    \/ WriteLine(ReplyLine("none", NoTs, Len(lines) + 1, <<1, 0>>), MaxMixedLines)
    \/ \E gap \in Gaps :
          WriteLine(ReplyLine("epoch",
                              IF LastTs(lines) = NoTs THEN FirstTs
                              ELSE LastTs(lines) + gap,
                              Len(lines) + 1, <<1, 0>>),
                    MaxMixedLines)

\* a generator opens the file and writes the header; create_ping_file is given
\* private and public addresses, generate_test_files takes 192.168.x.y
GenStart(kind, header) ==
    /\ pc = "write"
    /\ readable
    /\ gen.kind = "none"
    /\ lines = <<>>
    /\ kind = "generate_test_files" => header = PrivateHeaderLine
    /\ lines' = <<header>>
    /\ gen' = [kind |-> kind, seq |-> IF kind = "create_ping_file" THEN 1 ELSE 0,
               sent |-> 0, seqs |-> <<>>, raw |-> <<>>]
    /\ UNCHANGED <<files, readable, result, results, report, OUI_DB, oui_cache,
                   effects, pc, args, missing,
                   called, samba>>

GenPing ==
    /\ pc = "write"
    /\ gen.kind \in {"create_ping_file", "generate_test_files"}
    /\ gen.sent < MaxGenPings
    /\ \E lost \in BOOLEAN, ping_time \in RawLatencies :
          LET step == IF gen.kind = "create_ping_file"
                      THEN CreatePingFileStep(gen, lines, lost, ping_time)
                      ELSE GenerateTestFilesStep(gen, lines, lost, ping_time)
          IN  /\ gen' = step.gen
              /\ lines' = step.lines
    /\ UNCHANGED <<files, readable, result, results, report, OUI_DB, oui_cache,
                   effects, pc, args, missing,
                   called, samba>>

\* generate_test_files: the next session starts, 'seq_num = 0'
GenNewSession ==
    /\ pc = "write"
    /\ gen.kind = "generate_test_files"
    /\ gen.seq > 0
    /\ gen.sent < MaxGenPings
    /\ gen' = [gen EXCEPT !.seq = 0]
    /\ UNCHANGED <<files, readable, lines, result, results, report, OUI_DB,
                   oui_cache, effects, pc, args, missing,
                   called, samba>>

\* the generator writes the summary and closes the file
GenFinish ==
    /\ pc = "write"
    /\ gen.kind \in {"create_ping_file", "generate_test_files"}
    /\ gen.kind = "generate_test_files" => gen.seq > 0
    /\ lines' = IF gen.kind = "create_ping_file"
                THEN CreatePingFileSummary(gen, lines)
                ELSE GenerateTestFilesSummary(gen, lines)
    /\ gen' = [gen EXCEPT !.kind = "done:" \o gen.kind]
    /\ UNCHANGED <<files, readable, result, results, report, OUI_DB, oui_cache,
                   effects, pc, args, missing,
                   called, samba>>

\* one iteration of 'for file in files' of analyze_ping_files
AnalyzeFile ==
    /\ pc = "write"
    /\ gen.kind \notin {"create_ping_file", "generate_test_files"}
    /\ \E call \in {AnalyzePingFile(files[Len(files)], readable, lines, OUI_DB,
                                     oui_cache, env) : env \in Environments} :
          /\ result' = call.ret
          /\ results' = StoreResult(results, files[Len(files)], call.ret)
          /\ OUI_DB' = call.OUI_DB
          /\ oui_cache' = call.oui_cache
          /\ effects' = effects \cup call.effects
    /\ pc' = "analyzed"
    /\ UNCHANGED <<files, readable, lines, report, gen, args, missing,
                   called, samba>>

\* the loop takes up the next file of the list, one of names; an exception of
\* analyze_ping_file would have left the loop and analyze_ping_files
TakeFile(names) ==
    /\ pc = "analyzed"
    /\ result.kind # "raise"
    /\ \E f \in names \ SeqToSet(files), r \in BOOLEAN :
          /\ files' = Append(files, f)
          /\ readable' = r
    /\ lines' = <<>>
    /\ result' = NotRun
    /\ gen' = NoGen
    /\ pc' = "write"
    /\ UNCHANGED <<results, report, OUI_DB, oui_cache, effects, args, missing,
                   called, samba>>

NextFile == TakeFile(FileNames)

\* the next file of a list of files that share their base name
NextSameName == TakeFile(SameNames)


\* a custom_pdf_generated that is never set to True
CustomPdfNeverGenerated == FALSE

\* custom_pdf_generated of analyze_ping_files
CustomPdfGenerated ==
    \E n \in 1..Len(report) : report[n].kind = "pdf" /\ report[n].file = "custom"

\* analyze_ping_files, 'Generate visualizations if requested'; an exception of
\* create_visualization is printed
CreateVisualization ==
    /\ pc = "analyzed"
    /\ result.kind # "raise"
    /\ args.visualize
    /\ \E ok \in BOOLEAN :
          report' = Append(report, IF ok THEN [kind |-> "visualization"]
                                   ELSE [kind |-> "raise", exc |-> "Exception"])
    /\ pc' = "visualized"
    /\ UNCHANGED <<files, readable, lines, result, results, gen, OUI_DB, oui_cache,
                   effects, args, missing,
                   called, samba>>

\* analyze_ping_files, 'Generate custom PDF report if specified'; an exception
\* of generate_pdf_report is printed
GeneratePdfReport ==
    /\ \/ pc = "visualized"
       \/ pc = "analyzed" /\ ~args.visualize
    /\ result.kind # "raise"
    /\ args.pdf_output
    /\ \E call \in {PdfReport(results, "custom", env) : env \in PdfEnvironments} :
          /\ report' = report \o call.out
          /\ results' = call.results
    /\ pc' = "pdf"
    /\ UNCHANGED <<files, readable, lines, result, gen, OUI_DB, oui_cache, effects,
                   args, missing,
                   called, samba>>

\* analyze_ping_files, 'Generate summary report':
\* 'if not args["visualize"] and not custom_pdf_generated', skip_pdf is False
GenerateSummaryReport ==
    /\ \/ pc = "pdf"
       \/ pc = "analyzed" /\ ~args.pdf_output
    /\ result.kind # "raise"
    /\ ~args.visualize
    /\ ~CustomPdfGenerated
    /\ \E call \in {SummaryReport(results, CustomPdfGenerated, env) :
                       env \in PdfEnvironments} :
          /\ report' = report \o call.out
          /\ results' = call.results
    /\ pc' = "summary"
    /\ UNCHANGED <<files, readable, lines, result, gen, OUI_DB, oui_cache, effects,
                   args, missing,
                   called, samba>>

\* analyze_ping_files, 'Output to file if requested': skip_pdf is True
SaveSummaryReport ==
    /\ \/ pc = "summary"
       \/ pc = "pdf" /\ (args.visualize \/ CustomPdfGenerated)
       \/ pc = "visualized" /\ ~args.pdf_output
    /\ result.kind # "raise"
    /\ args.output_file
    /\ report' = report \o SummaryReport(results, TRUE, NoPdf).out
    /\ results' = SummaryReport(results, TRUE, NoPdf).results
    /\ pc' = "saved"
    /\ UNCHANGED <<files, readable, lines, result, gen, OUI_DB, oui_cache, effects,
                   args, missing,
                   called, samba>>

\* a whole captured log is in place before the file is analysed
WriteLog ==
    /\ pc = "write"
    /\ readable
    /\ gen.kind = "none"
    /\ lines = <<>>
    /\ lines' \in DeviceLogs
    /\ UNCHANGED <<files, readable, result, results, report, gen, OUI_DB, oui_cache,
                   effects, args, missing,
                   called, samba, pc>>

\* the place of a file in DeviceList
DeviceIndex(file) == CHOOSE k \in 1..Len(DeviceList) : DeviceList[k] = file

\* the loop takes up a later file of DeviceList, of at most MaxDevices
TakeDevice ==
    /\ pc = "analyzed"
    /\ result.kind # "raise"
    /\ Len(files) < MaxDevices
    /\ \E k \in 1..Len(DeviceList) :
          /\ k > DeviceIndex(files[Len(files)])
          /\ files' = Append(files, DeviceList[k])
    /\ lines' = <<>>
    /\ result' = NotRun
    /\ pc' = "write"
    /\ UNCHANGED <<readable, results, report, gen, OUI_DB, oui_cache, effects, args,
                   missing,
                   called, samba>>

\* a call of categorize_devices
CallCategorizeDevices ==
    /\ pc = "call"
    /\ called = NoCall
    /\ \E items \in ItemLists, item_type \in ItemTypes :
          called' = [fn |-> "categorize_devices", items |-> items,
                     item_type |-> item_type,
                     ret |-> CategorizeDevices(items, item_type)]
    /\ UNCHANGED <<files, readable, lines, result, results, report, gen, OUI_DB,
                   oui_cache, effects, args, missing, samba, pc>>

\* a call of evaluate_packet_loss
CallEvaluatePacketLoss ==
    /\ pc = "call"
    /\ called = NoCall
    /\ \E packet_loss \in LossValues, is_lan \in BOOLEAN, is_voip \in BOOLEAN,
          is_web \in BOOLEAN :
          called' = [fn |-> "evaluate_packet_loss", packet_loss |-> packet_loss,
                     is_lan |-> is_lan, is_voip |-> is_voip, is_web |-> is_web,
                     ret |-> EvaluatePacketLoss(packet_loss, is_lan, is_voip, is_web)]
    /\ UNCHANGED <<files, readable, lines, result, results, report, gen, OUI_DB,
                   oui_cache, effects, args, missing, samba, pc>>

\* set_samba_acls.main reads the CSV file and lists the shares
SambaRead ==
    /\ pc = "samba"
    /\ samba.pc = "start"
    /\ samba' = ReadCsvFile(samba)
    /\ UNCHANGED <<files, readable, lines, result, results, report, gen, OUI_DB,
                   oui_cache, effects, args, missing, called, pc>>

\* the user enters a selection
SambaSelect ==
    /\ pc = "samba"
    /\ samba.pc = "select"
    /\ samba.asked < MaxSelections
    /\ \E text \in SelectionInputs : samba' = SelectShare(samba, text)
    /\ UNCHANGED <<files, readable, lines, result, results, report, gen, OUI_DB,
                   oui_cache, effects, args, missing, called, pc>>

\* the user answers the confirmation of the next entry
SambaConfirm ==
    /\ pc = "samba"
    /\ samba.pc = "prompt"
    /\ \E answer \in Answers, ran \in {"ok", "CalledProcessError", "FileNotFoundError"} :
          samba' = ConfirmEntry(samba, answer, ran)
    /\ UNCHANGED <<files, readable, lines, result, results, report, gen, OUI_DB,
                   oui_cache, effects, args, missing, called, pc>>

\* the import guard at the top of the module: an ImportError of any of the
\* modules prints the installation instructions and calls sys.exit(1)
ImportGuard ==
    /\ pc = "import"
    /\ pc' = IF missing = {} THEN "write" ELSE "exit"
    /\ UNCHANGED <<files, readable, lines, result, results, report, gen, OUI_DB,
                   oui_cache, effects, args, missing,
                   called, samba>>

(***************************************************************************)
(* Specifications.                                                         *)
(***************************************************************************)

\* one captured log of any lines
Init == InitWith(OneFile \cup MacFile, BOOLEAN, {"absent", "old", "fresh"}, {NoFlags})

Next == WriteAny \/ AnalyzeFile

Spec == Init /\ [][Next]_vars

\* one log of replies with any sequence numbers
InitSeq == InitWith(OneFile, {TRUE}, {"absent"}, {PdfFlag})

NextSeq == WriteSeq \/ AnalyzeFile \/ GeneratePdfReport

SpecSeq == InitSeq /\ [][NextSeq]_vars

\* the logs of two devices
InitStats == InitWith(FileNames, BOOLEAN, {"absent"}, Flags)

NextStats ==
    \/ WriteStat
    \/ AnalyzeFile
    \/ NextFile
    \/ CreateVisualization
    \/ GeneratePdfReport
    \/ GenerateSummaryReport
    \/ SaveSummaryReport

SpecStats == InitStats /\ [][NextStats]_vars

\* one log captured with ping -D
InitTs == InitWith(OneFile, {TRUE}, {"absent"}, {NoFlags})

NextTs == WriteTs \/ AnalyzeFile

SpecTs == InitTs /\ [][NextTs]_vars

\* one log written by a generator
InitGen == InitWith(OneFile, {TRUE}, {"absent"}, {PdfFlag})

NextGen ==
    \/ \E kind \in {"create_ping_file", "generate_test_files"},
          header \in {HeaderLine, PrivateHeaderLine} : GenStart(kind, header)
    \/ GenPing
    \/ GenNewSession
    \/ GenFinish
    \/ AnalyzeFile
    \/ GeneratePdfReport

SpecGen == InitGen /\ [][NextGen]_vars

\* one log in which some replies carry a timestamp and some do not
InitMixed == InitWith(OneFile, {TRUE}, {"absent"}, {NoFlags})

NextMixed == WriteMixed \/ AnalyzeFile

SpecMixed == InitMixed /\ [][NextMixed]_vars

\* one run of the program from its first line, with any command line and at
\* most one of the third-party modules not installed
InitRun ==
    /\ args \in Flags
    /\ missing \in {{}} \cup {{l} : l \in Libraries}
    /\ called = NoCall
    /\ samba = NoSamba
    /\ files \in {<<f>> : f \in FileNames}
    /\ readable \in BOOLEAN
    /\ lines = <<>>
    /\ result = NotRun
    /\ results = <<>>
    /\ report = <<>>
    /\ gen = NoGen
    /\ OUI_DB = "empty"
    /\ oui_cache = "absent"
    /\ effects = {}
    /\ pc = "import"

NextRun ==
    \/ ImportGuard
    \/ WriteStat
    \/ AnalyzeFile
    \/ NextFile
    \/ CreateVisualization
    \/ GeneratePdfReport
    \/ GenerateSummaryReport
    \/ SaveSummaryReport

SpecRun == InitRun /\ [][NextRun]_vars

\* a list of files in different directories and with different extensions
InitNames == InitWith(SameNames, BOOLEAN, {"absent"}, {NoFlags})

NextNames == WriteStat \/ AnalyzeFile \/ NextSameName

SpecNames == InitNames /\ [][NextNames]_vars

\* the logs of several devices and their report
InitDevices == InitWith(SeqToSet(DeviceList), {TRUE}, {"absent"}, {NoFlags})

NextDevices ==
    \/ WriteLog
    \/ AnalyzeFile
    \/ TakeDevice
    \/ GenerateSummaryReport

SpecDevices == InitDevices /\ [][NextDevices]_vars

\* single calls of the functions that take no part in a run over log files
InitCalls ==
    /\ args = NoFlags
    /\ missing = {}
    /\ called = NoCall
    /\ samba = NoSamba
    /\ files = <<>>
    /\ readable = TRUE
    /\ lines = <<>>
    /\ result = NotRun
    /\ results = <<>>
    /\ report = <<>>
    /\ gen = NoGen
    /\ OUI_DB = "empty"
    /\ oui_cache = "absent"
    /\ effects = {}
    /\ pc = "call"

NextCalls == CallCategorizeDevices \/ CallEvaluatePacketLoss

SpecCalls == InitCalls /\ [][NextCalls]_vars

\* one run of set_samba_acls.py
InitSamba ==
    /\ args = NoFlags
    /\ missing = {}
    /\ called = NoCall
    /\ samba \in {SambaStart(file) : file \in CsvFiles}
    /\ files = <<>>
    /\ readable = TRUE
    /\ lines = <<>>
    /\ result = NotRun
    /\ results = <<>>
    /\ report = <<>>
    /\ gen = NoGen
    /\ OUI_DB = "empty"
    /\ oui_cache = "absent"
    /\ effects = {}
    /\ pc = "samba"

NextSamba == SambaRead \/ SambaSelect \/ SambaConfirm

SpecSamba == InitSamba /\ [][NextSamba]_vars

(***************************************************************************)
(* Properties.                                                             *)
(***************************************************************************)

\* the lines that hold both an icmp_seq= field and a time= field
ReplyLines == SelectSeq(lines, LAMBDA l : l.seq # NoSeq /\ l.time # <<>>)

RepliedSeqs == {ReplyLines[i].seq : i \in 1..Len(ReplyLines)}

Analysed == pc # "write" /\ result.kind = "analysis"

\* C1: for a file with at least one reply line, missing_sequences is the
\* ascending list of exactly the integers between the smallest and the
\* largest replied sequence number that no reply line carries, whatever the
\* order of the reply lines and however often a number repeats; sequences
\* [1,2,4,5] give [3].
C1_MissingSequences ==
    Analysed =>
        LET m == result.missing_sequences
        IN  /\ \A i \in 1..(Len(m) - 1) : m[i] < m[i + 1]
            /\ SeqToSet(m) =
                   {n \in 0..(MaxSeq + 1) :
                       /\ n \notin RepliedSeqs
                       /\ \E a, b \in RepliedSeqs : a < n /\ n < b}
            /\ (result.sequences = <<1, 2, 4, 5>> => m = <<3>>)

C1_Witness ==
    /\ Analysed
    /\ result.sequences = <<1, 2, 4, 5>>
    /\ result.missing_sequences = <<3>>

\* C2: a readable file without any reply line (an empty file, a file of
\* header and summary lines) makes analyze_ping_file return None; it raises
\* nothing.
C2_NoDataIsNone ==
    (pc # "write" /\ readable /\ ReplyLines = <<>>) => result.kind = "None"

C2_Witness ==
    /\ pc = "analyzed"
    /\ readable
    /\ lines = <<>>
    /\ result.kind = "None"

\* C5: when no line of the file starts with a bracketed epoch timestamp, the
\* analysis has has_timestamps = false and empty timestamps, intervals and
\* abnormal_intervals.
C5_NoTimestampsNoIntervals ==
    (Analysed /\ \A i \in 1..Len(lines) : lines[i].prefix # "epoch") =>
        /\ result.has_timestamps = FALSE
        /\ result.timestamps = <<>>
        /\ result.intervals = <<>>
        /\ result.abnormal_intervals = <<>>

C5_Witness ==
    /\ Analysed
    /\ \A i \in 1..Len(lines) : lines[i].prefix # "epoch"
    /\ \E i \in 1..Len(lines) : lines[i].prefix = "date"
    /\ Len(result.sequences) >= 2
    /\ result.has_timestamps = FALSE
    /\ result.intervals = <<>>

\* C6: a mixed file, with a reply line that carries an epoch timestamp and a
\* reply line that carries none, is reported with has_timestamps = false and
\* without timestamps, intervals or abnormal intervals.
C6_MixedFileHasNoTimestamps ==
    (/\ Analysed
     /\ \E i \in 1..Len(ReplyLines) : ReplyLines[i].prefix = "epoch"
     /\ \E i \in 1..Len(ReplyLines) : ReplyLines[i].prefix # "epoch") =>
        /\ result.has_timestamps = FALSE
        /\ result.timestamps = <<>>
        /\ result.intervals = <<>>
        /\ result.abnormal_intervals = <<>>

\* C9: the observations are exactly the lines that hold both icmp_seq=<N> and
\* time=<F>, in file order: the n-th sequence number and the n-th latency are
\* those of the n-th such line, and no other line adds to or changes either
\* list.
C9_ObservationsAreReplyLines ==
    pc # "write" /\ readable =>
        IF ReplyLines = <<>>
        THEN result.kind = "None"
        ELSE /\ result.kind = "analysis"
             /\ Len(result.sequences) = Len(ReplyLines)
             /\ Len(result.times) = Len(ReplyLines)
             /\ \A n \in 1..Len(ReplyLines) :
                   /\ result.sequences[n] = ReplyLines[n].seq
                   /\ result.times[n] =
                          ReplyLines[n].time[1] * 1000 + ReplyLines[n].time[2]

C9_Witness ==
    /\ Analysed
    /\ Len(lines) = 3
    /\ lines[1].seq # NoSeq /\ lines[1].time = <<>>
    /\ lines[2].seq = NoSeq /\ lines[2].time # <<>>
    /\ lines[3].seq # NoSeq /\ lines[3].time # <<>>
    /\ result.sequences = <<lines[3].seq>>
    /\ Len(result.times) = 1

GeneratedBy(kind) == gen.kind = "done:" \o kind

\* generate_pdf_report has computed the packet loss of the devices
PdfGenerated == \E n \in 1..Len(report) : report[n].kind = "pdf"

\* C3: for a log of N transmitted pings, numbered 1..N, with R replies
\* recorded, the packet loss of the device in the report is (N - R) / N * 100,
\* whichever pings were lost.
C3_LossOfTransmitted ==
    (/\ PdfGenerated
     /\ GeneratedBy("create_ping_file")
     /\ Len(results) = 1) =>
        LET N    == gen.sent
            R    == Len(gen.seqs)
            loss == results[1].data.packet_loss
        IN  loss.num * N = (N - R) * loss.den

\* C4: the packet loss of each device is (expected - received) / expected *
\* 100 with expected = max(seq) - min(seq) + 1 and received the number of
\* replies, and 0 when received > expected; it is never negative and lies in
\* [0, 100).
C4_PacketLossRange ==
    PdfGenerated =>
        /\ \A i \in 1..Len(results) :
              LET seqs     == results[i].data.sequences
                  expected == CHOOSE e \in 1..(MaxSeq + 1) :
                                  \E a, b \in SeqToSet(seqs) :
                                      /\ e = b - a + 1
                                      /\ \A x \in SeqToSet(seqs) : a <= x /\ x <= b
                  received == Len(seqs)
                  loss     == results[i].data.packet_loss
              IN  /\ loss.den > 0
                  /\ received > expected => loss.num = 0
                  /\ received <= expected =>
                         loss.num * expected = (expected - received) * loss.den
                  /\ 0 <= loss.num
                  /\ loss.num < loss.den

C4_Witness ==
    /\ PdfGenerated
    /\ Len(results) = 1
    /\ results[1].data.sequences = <<2, 3, 3, 2>>
    /\ results[1].data.packet_loss.num = 0

\* C7: a log written by create_ping_file or generate_test_files from known
\* replied sequence numbers and known latencies is parsed back into the same
\* sequence numbers and the same latencies, in the same order, each latency
\* within half a thousandth of a millisecond of the one generated; a log
\* without a reply is parsed into None.
C7_RoundTrip ==
    (pc # "write" /\ (GeneratedBy("create_ping_file") \/ GeneratedBy("generate_test_files"))) =>
        IF gen.seqs = <<>>
        THEN result.kind = "None"
        ELSE /\ result.kind = "analysis"
             /\ result.sequences = gen.seqs
             /\ Len(result.times) = Len(gen.raw)
             /\ \A i \in 1..Len(gen.raw) :
                   /\ 10 * result.times[i] - gen.raw[i] <= 5
                   /\ gen.raw[i] - 10 * result.times[i] <= 5

C7_Witness ==
    /\ pc = "analyzed"
    /\ GeneratedBy("create_ping_file")
    /\ gen.seqs = <<1, 3, 4>>
    /\ gen.raw = <<12344, 9996, 2000>>
    /\ result.times = <<1234, 1000, 200>>

\* the latencies of all devices of the results dictionary
RECURSIVE LatenciesFrom(_)
LatenciesFrom(i) ==
    IF i > Len(results) THEN <<>>
    ELSE results[i].data.times \o LatenciesFrom(i + 1)

IsWindowMedian(m, w) ==
    /\ \E i \in 1..Len(w) : w[i] = m
    /\ Cardinality({i \in 1..Len(w) : w[i] < m}) <= Len(w) \div 2
    /\ Cardinality({i \in 1..Len(w) : w[i] <= m}) > Len(w) \div 2

\* the last 10 intervals up to and including the k-th
WindowAt(iv, k) == [j \in 1..(IF k > 10 THEN 10 ELSE k) |-> iv[k - (IF k > 10 THEN 10 ELSE k) + j]]

\* C10: with timestamps and at least 2 observations, intervals holds the gaps
\* between consecutive timestamps, and the k-th interval is in
\* abnormal_intervals exactly when it is at least the 6th and exceeds 2 times
\* the median (the element at index len // 2 of the sorted list) of the last 10
\* intervals up to itself; none of the first 5 intervals is flagged.
C10_AbnormalIntervals ==
    Analysed =>
        LET ts == result.timestamps
            iv == result.intervals
            ab == result.abnormal_intervals
        IN  /\ (result.has_timestamps /\ Len(result.sequences) >= 2) =>
                  Len(iv) = Len(result.sequences) - 1
            /\ Len(ts) >= 2 => Len(iv) = Len(ts) - 1
            /\ \A k \in 1..Len(iv) : iv[k] = ts[k + 1] - ts[k]
            /\ \A k \in 1..Len(iv) :
                  (\E n \in 1..Len(ab) : ab[n][2] = k) <=>
                      /\ k > 5
                      /\ \E m \in SeqToSet(iv) :
                            IsWindowMedian(m, WindowAt(iv, k)) /\ iv[k] > 2 * m
            /\ \A n \in 1..Len(ab) :
                  /\ ab[n][2] \in 6..Len(iv)
                  /\ ab[n][1] = ab[n][2] - 1
                  /\ ab[n][3] = iv[ab[n][2]]
                  /\ IsWindowMedian(ab[n][4], WindowAt(iv, ab[n][2]))
            /\ \A n \in 1..(Len(ab) - 1) : ab[n][2] < ab[n + 1][2]

C10_Witness ==
    /\ Analysed
    /\ Len(result.intervals) = 11
    /\ result.intervals[1] = 1
    /\ \E n \in 1..Len(result.abnormal_intervals) :
          result.abnormal_intervals[n][2] = 6
    /\ \A n \in 1..Len(result.abnormal_intervals) :
          result.abnormal_intervals[n][2] # 11
    /\ result.intervals[11] = 3

\* C11: every entry (i-1, i, interval, median) of abnormal_intervals names two
\* adjacent observations of the file: i-1 and i are indexes into the list of
\* observations, both observations carry a timestamp, and interval is the
\* gap between the timestamps of these two observations.
C11_AbnormalNamesObservations ==
    Analysed =>
        \A n \in 1..Len(result.abnormal_intervals) :
            LET e == result.abnormal_intervals[n]
            IN  /\ e[1] >= 0 /\ e[2] = e[1] + 1 /\ e[2] < Len(ReplyLines)
                /\ ReplyLines[e[1] + 1].prefix = "epoch"
                /\ ReplyLines[e[2] + 1].prefix = "epoch"
                /\ e[3] = ReplyLines[e[2] + 1].ts - ReplyLines[e[1] + 1].ts

\* C12: a first line that does not match the PING header fails nothing: the
\* address is "Unknown", the hostname absent, and the observations are those
\* of the reply lines, as with a header; 'PING <name> (<addr>)' gives domain
\* = name and ip = addr, 'PING <addr>' gives ip = addr and no domain.
C12_HeaderParse ==
    (pc # "write" /\ readable) =>
        /\ result.kind # "raise"
        /\ Analysed =>
              /\ lines[1].ping = "none" =>
                    result.ip = "Unknown" /\ result.domain = "None"
              /\ lines[1].ping = "name_addr" =>
                    /\ result.ip = (IF lines[1].private THEN "lan addr" ELSE "addr")
                    /\ result.domain = "name"
              /\ lines[1].ping = "addr" =>
                    /\ result.ip = (IF lines[1].private THEN "lan addr" ELSE "addr")
                    /\ result.domain = "None"
              /\ result.sequences = [i \in 1..Len(ReplyLines) |-> ReplyLines[i].seq]
              /\ result.times =
                    [i \in 1..Len(ReplyLines) |->
                        ReplyLines[i].time[1] * 1000 + ReplyLines[i].time[2]]

C12_Witness ==
    /\ Analysed
    /\ Len(lines) = 3
    /\ lines[1] = SummaryLine
    /\ lines[2].seq = 1 /\ lines[3].seq = 2
    /\ result.ip = "Unknown"
    /\ result.domain = "None"
    /\ result.sequences = <<1, 2>>

\* C13: an unreadable file is skipped: analyze_ping_file returns for it
\* without raising and the results keep every entry they had; the loop goes
\* on with the remaining files, and a later file with data gets its entry,
\* wherever the unreadable file stands in the list.
C13_UnreadableIsSkipped ==
    /\ [](result.kind # "raise")
    /\ []((pc = "analyzed" /\ FileNames \ SeqToSet(files) # {}) => ENABLED NextFile)
    /\ [][(pc = "write" /\ pc' = "analyzed") =>
            /\ ~readable => (result'.kind = "None" /\ results' = results)
            /\ (readable /\ ReplyLines # <<>>) =>
                  \E i \in 1..Len(results') :
                      /\ results'[i].name = DeviceName(files[Len(files)])
                      /\ results'[i].data.filename = files[Len(files)]
                      /\ results'[i].data.sequences =
                            [k \in 1..Len(ReplyLines) |-> ReplyLines[k].seq]
            /\ \A i \in 1..Len(results) :
                  results[i].name # DeviceName(files[Len(files)]) =>
                      \E j \in 1..Len(results') : results'[j] = results[i]]_vars

\* the first file of the list had data, the second was unreadable
C13_Witness ==
    /\ pc = "analyzed"
    /\ Len(files) = 2
    /\ ~readable
    /\ result.kind = "None"
    /\ Len(results) = 1
    /\ results[1].data.filename = files[1]

\* what analyze_ping_file returns for the current file when it cannot be read
UnreadableOutcome ==
    {AnalyzePingFile(files[Len(files)], FALSE, lines, OUI_DB, oui_cache, env).ret :
        env \in Environments}

\* C14: for a readable file with zero observations analyze_ping_file gives
\* an explicit "no data" outcome, one that the caller can tell apart from
\* the outcome for an unreadable file.
C14_NoDataIsNotAnError ==
    (pc = "analyzed" /\ readable /\ ReplyLines = <<>>) =>
        result \notin UnreadableOutcome

\* C15: a missing plotting or PDF library is recoverable: it does not end
\* the program, the run goes on to parse the files and to produce the
\* output formats that do not need the library.
C15_MissingLibraryIsRecoverable ==
    (missing # {} /\ missing \subseteq RenderingLibraries) => pc # "exit"

\* C16: parsing a file has no side effects: a call of analyze_ping_file
\* starts no process, makes no network request, writes no file and leaves
\* the global OUI_DB and the file oui_cache.json as they were.
C16_ParsingHasNoSideEffects ==
    [][(pc = "write" /\ pc' = "analyzed") =>
          /\ effects' = effects
          /\ OUI_DB' = OUI_DB
          /\ oui_cache' = oui_cache]_vars

\* C17: the packet_loss generate_pdf_report computes for a device is the share
\* of the expected replies that were not observed,
\* |missing_sequences| / (max(seq) - min(seq) + 1) * 100, also when a
\* sequence number occurs in more than one reply line.
C17_LossIsMissingShare ==
    PdfGenerated =>
        \A i \in 1..Len(results) :
            LET data     == results[i].data
                expected == Max(SeqToSet(data.sequences))
                              - Min(SeqToSet(data.sequences)) + 1
            IN  data.packet_loss.num * expected =
                    Len(data.missing_sequences) * data.packet_loss.den

\* C18: the results hold one entry for every input file that yielded an
\* observation: analysing a file with data adds its entry, and no entry of
\* another file is lost or overwritten, also for files of the same base
\* name in different directories or with different extensions.
C18_NoFileIsOverwritten ==
    [][(pc = "write" /\ pc' = "analyzed") =>
          /\ (readable /\ ReplyLines # <<>>) =>
                \E j \in 1..Len(results') :
                    results'[j].data.filename = files[Len(files)]
          /\ \A i \in 1..Len(results) :
                \E j \in 1..Len(results') : results'[j] = results[i]]_vars

\* C19: the 'Total files analyzed' figure of generate_summary_report is the
\* number of analyzed files, the number of entries of the results
\* dictionary it is given.
C19_TotalFilesIsEntryCount ==
    \A n \in 1..Len(report) :
        report[n].kind = "summary" => report[n].total_files = Len(results)

\* the calls of generate_pdf_report that wrote the document named file
PdfsWritten(file) ==
    {n \in 1..Len(report) : report[n].kind = "pdf" /\ report[n].file = file}

\* C20: in one run, once the custom PDF of --pdf was generated, the default
\* ping_analysis_report.pdf is not generated as well, whatever --visualize
\* and --output are; generate_pdf_report succeeds at most once in a run.
C20_OnePdfPerRun ==
    /\ PdfsWritten("custom") # {} => PdfsWritten("ping_analysis_report.pdf") = {}
    /\ Cardinality(PdfsWritten("custom") \cup PdfsWritten("ping_analysis_report.pdf")) <= 1
    /\ PdfsWritten("custom") # {} => args.pdf_output

\* --pdf and --output without --visualize: the custom PDF was generated, the
\* summary went to the output file only
C20_Witness ==
    /\ pc = "saved"
    /\ args.pdf_output /\ args.output_file /\ ~args.visualize
    /\ Len(results) = 2
    /\ Len(report) = 2
    /\ report[1].kind = "pdf" /\ report[1].file = "custom"
    /\ report[2].kind = "summary"

\* the documents of the report log
PdfEntries == {n \in 1..Len(report) : report[n].kind = "pdf"}

\* the groups of a document that hold a device
GroupsOf(groups, device_name) ==
    {k \in 1..Len(GroupOrder) : device_name \in SeqToSet(groups[GroupOrder[k]])}

\* the groups in the order of their tests, and the test of each
TestOrder ==
    <<"voip_providers", "gateways", "switches", "access_points", "voip_phones",
      "web_services", "lan_hosts", "public_hosts">>

GroupTest(k, device_name, device_data) ==
    CASE k = 1 -> GetDeviceNetworkProfile(device_name, device_data).is_voip_provider
      [] k = 2 -> Contains(device_name, "gateway")
      [] k = 3 -> Contains(device_name, "switch")
      [] k = 4 -> Contains(device_name, "access_point")
      [] k = 5 -> GetDeviceNetworkProfile(device_name, device_data).is_voip_device
      [] k = 6 -> GetDeviceNetworkProfile(device_name, device_data).is_web_service
      [] k = 7 -> IsPrivateAddress(device_data.ip)
      [] OTHER -> ~IsPrivateAddress(device_data.ip)

FirstMatch(device_name, device_data) ==
    TestOrder[Min({k \in 1..Len(TestOrder) : GroupTest(k, device_name, device_data)})]

\* the sum of the counts a summary prints
RECURSIVE SumCounts(_)
SumCounts(counts) ==
    IF DOMAIN counts = {} THEN 0
    ELSE LET k == CHOOSE k \in DOMAIN counts : TRUE
         IN  counts[k] + SumCounts([j \in DOMAIN counts \ {k} |-> counts[j]])

\* C21: a document places every device of the results in exactly one of the
\* eight groups, the group of the first test that matches in the order VoIP
\* providers, gateways, switches, access points, VoIP handsets, web services,
\* LAN hosts, public hosts; the group counts of its summary add up to the
\* total number of devices, the number of entries of the results
C21_OneGroupPerDevice ==
    \A n \in PdfEntries :
        /\ \A i \in 1..Len(results) :
              /\ Cardinality(GroupsOf(report[n].groups, results[i].name)) = 1
              /\ results[i].name
                   \in SeqToSet(report[n].groups[FirstMatch(results[i].name,
                                                            results[i].data)])
        /\ report[n].total_devices = Len(results)
        /\ SumCounts(report[n].group_counts) = report[n].total_devices

\* a document of two devices whose names match several tests: a VoIP provider
\* named as a gateway, and a handset whose name has 'Gateway' in capitals
C21_Witness ==
    \E n \in PdfEntries :
        /\ report[n].total_devices = 2
        /\ report[n].groups.voip_providers = <<"voip_provider-gateway">>
        /\ report[n].groups.voip_phones = <<"VoIP-Gateway">>
        /\ report[n].groups.gateways = <<>>

\* the entry of a device in the list of problematic devices of a document
ListedAs(entry, device_name) ==
    {k \in 1..Len(entry.problematic_devices) :
        entry.problematic_devices[k].name = device_name}

\* the criteria of the claim, from the figures the document prints: the
\* average of the device is more than 1.5 times the overall average; its
\* packet loss is more than 5 percent
LatencyCriterion(entry, device_data) ==
    2 * Sum(device_data.times) * entry.stats.avg_time.den
        > 3 * entry.stats.avg_time.num * Len(device_data.times)

LossCriterion(device_data) ==
    100 * device_data.packet_loss.num > 5 * device_data.packet_loss.den

C22_SingleDevice ==
    \E n \in PdfEntries :
        /\ Len(results) = 1
        /\ Len(report[n].problematic_devices) = 1

\* two quotients with positive denominators are the same number
SameNumber(a, b) == a.num * b.den = b.num * a.den

\* C23: in 'Recommended Actions' the network average is the average over all
\* latencies of all devices, and the threshold printed before it is 1.5 times
\* the printed network average.  The network average a document prints is
\* avg_time as the device sections left it.
C23_NetworkAverageIsOverall ==
    \A n \in PdfEntries :
        report[n].problematic_devices # <<>> =>
            /\ SameNumber(report[n].network_average, report[n].stats.avg_time)
            /\ 2 * report[n].high_latency_threshold.num * report[n].network_average.den
                 = 3 * report[n].network_average.num * report[n].high_latency_threshold.den

\* a document of one device prints its average as the network average
C23_SingleDeviceAgrees ==
    \A n \in PdfEntries :
        (report[n].problematic_devices # <<>> /\ report[n].total_devices = 1) =>
            SameNumber(report[n].network_average, report[n].stats.avg_time)

\* how often an item occurs in a list
Count(items, item) == Cardinality({k \in 1..Len(items) : items[k] = item})

\* the categories of a returned dictionary that hold an item
CategoriesOf(categories, item) ==
    {k \in 1..Len(categories) : Count(categories[k].items, item) > 0}

\* C24: categorize_devices, called with item_type 'target' or 'file', returns
\* a partition of its input: every item occurs in exactly one returned
\* category, as many times as in the input; no returned category is empty and
\* no key occurs twice; for 'file' a name recognised as a MAC address is in
\* 'mac', whatever device type or IP address its name shows
C24_Partition ==
    (called.fn = "categorize_devices" /\ called.item_type \in {"target", "file"}) =>
        /\ called.ret.kind = "return"
        /\ \A item \in Items :
              /\ Cardinality(CategoriesOf(called.ret.categories, item))
                   = (IF Count(called.items, item) > 0 THEN 1 ELSE 0)
              /\ \A k \in CategoriesOf(called.ret.categories, item) :
                    Count(called.ret.categories[k].items, item)
                        = Count(called.items, item)
        /\ \A k \in 1..Len(called.ret.categories) :
              /\ called.ret.categories[k].items # <<>>
              /\ \A j \in 1..Len(called.ret.categories) :
                    called.ret.categories[j].name = called.ret.categories[k].name
                        => j = k
        /\ called.item_type = "file" =>
              \A k \in 1..Len(called.ret.categories), item \in Items :
                  (IsMacAddressInFilename(item)
                     /\ Count(called.ret.categories[k].items, item) > 0)
                      => called.ret.categories[k].name = "mac"

\* a call for files with a name twice, among them a MAC address that also
\* shows a device type
C24_Witness ==
    /\ called.fn = "categorize_devices"
    /\ called.item_type = "file"
    /\ called.items = <<"aa-bb-cc-dd-ee-ff-ap.log", "gw-switch.log",
                        "aa-bb-cc-dd-ee-ff-ap.log">>
    /\ called.ret.kind = "return"
    /\ Len(called.ret.categories) = 2

\* with an item_type that is neither 'target' nor 'file' and an item in the
\* list, the call raises KeyError
C24_OtherItemType ==
    (called.fn = "categorize_devices" /\ called.item_type = "mac"
       /\ called.items # <<>>) =>
        called.ret = [kind |-> "raise", exc |-> "KeyError"]

\* the rank of a status
Severity(status) ==
    CASE status = "optimal"    -> 0
      [] status = "acceptable" -> 1
      [] status = "impact"     -> 2
      [] OTHER                 -> 3

\* the statuses the guidelines of the report give a packet loss (in 0.01
\* percent); is_voip before is_web before is_lan.  A WAN loss of exactly 1
\* percent is in two of the printed ranges
GuidelineStatus(packet_loss, is_lan, is_voip, is_web) ==
    IF packet_loss = 0 THEN {"optimal"}
    ELSE IF is_voip THEN (IF packet_loss < 100 THEN {"acceptable"} ELSE {"investigate"})
    ELSE IF is_web THEN (IF packet_loss < 200 THEN {"acceptable"} ELSE {"investigate"})
    ELSE IF is_lan THEN (IF packet_loss <= 50 THEN {"acceptable"} ELSE {"investigate"})
    ELSE IF packet_loss < 100 THEN {"acceptable"}
    ELSE IF packet_loss = 100 THEN {"acceptable", "impact"}
    ELSE IF packet_loss <= 250 THEN {"impact"}
    ELSE {"investigate"}

\* C25: evaluate_packet_loss classifies as the guidelines printed in the
\* report: 0% is optimal for every profile; LAN up to 0.5% acceptable, over
\* 0.5% investigate; WAN up to 1% acceptable, 1-2.5% impact, over 2.5%
\* investigate; VoIP under 1% and web under 2% acceptable; is_voip before
\* is_web before is_lan; the severity does not decrease when the loss grows
C25_ClassifiesAsGuidelines ==
    called.fn = "evaluate_packet_loss" =>
        /\ called.ret[1] \in GuidelineStatus(called.packet_loss, called.is_lan,
                                             called.is_voip, called.is_web)
        /\ \A lower \in LossValues :
              lower <= called.packet_loss =>
                  Severity(EvaluatePacketLoss(lower, called.is_lan, called.is_voip,
                                              called.is_web)[1])
                      <= Severity(called.ret[1])

\* what holds of the classification: the severity does not decrease when the
\* loss grows, and away from 0.5 percent on the LAN and 2.5 percent on the WAN
\* the status is one of the guidelines
C25_AwayFromBoundaries ==
    called.fn = "evaluate_packet_loss" =>
        /\ \A lower \in LossValues :
              lower <= called.packet_loss =>
                  Severity(EvaluatePacketLoss(lower, called.is_lan, called.is_voip,
                                              called.is_web)[1])
                      <= Severity(called.ret[1])
        /\ (~(called.is_lan /\ called.packet_loss = 50)
              /\ ~(~called.is_lan /\ called.packet_loss = 250)) =>
              called.ret[1] \in GuidelineStatus(called.packet_loss, called.is_lan,
                                                called.is_voip, called.is_web)

\* the rows of the file whose path, without quotes, is the selected one
RowsOfSelected ==
    {k \in 1..Len(samba.rows) : StripQuotes(samba.rows[k].Path) = samba.selected_path}

\* the entries samba-tool was invoked for
Invoked == {samba.invoked[j].entry : j \in 1..Len(samba.invoked)}

\* what C26 says apart from the answers: the entries prompted so far are the
\* first rows of the selected path in the order of the file, once each, and at
\* the end all of them; samba-tool was invoked at most once for an entry, in
\* the order of the prompts, only for prompted entries, and with the selected
\* path
PromptedInCsvOrder ==
    /\ Len(samba.answers) = Len(samba.prompted)
    /\ \A i \in 1..Len(samba.prompted) :
          /\ samba.prompted[i] \in RowsOfSelected
          /\ Cardinality({k \in RowsOfSelected : k < samba.prompted[i]}) = i - 1
    /\ samba.pc = "done" => Len(samba.prompted) = Cardinality(RowsOfSelected)
    /\ samba.pc \in {"start", "select", "exit"} => samba.prompted = <<>>
    /\ Invoked \subseteq SeqToSet(samba.prompted)
    /\ \A j \in 1..Len(samba.invoked) :
          /\ \A i \in 1..Len(samba.invoked) :
                i < j => samba.invoked[i].entry < samba.invoked[j].entry
          /\ samba.invoked[j].entry \in RowsOfSelected
          /\ ConvertWindowsPathToSamba(samba.selected_path)
               = [kind |-> "return", path |-> samba.invoked[j].samba_path]

\* C26: samba-tool is invoked for an entry only after the user answered 'y' or
\* 'Y' to the confirmation of that very entry, and an entry answered with
\* anything else is skipped; the entries of the selected path are prompted
\* once each in the order of the CSV file, and no entry of another path is
\* applied
C26_AppliedAfterYes ==
    samba.pc # "none" =>
        /\ PromptedInCsvOrder
        /\ \A i \in 1..Len(samba.prompted) :
              (samba.prompted[i] \in Invoked) = (samba.answers[i] \in {"y", "Y"})

\* C26 as it is written: samba-tool is invoked for an entry only after the
\* answer 'y', and an entry answered with anything else is skipped
C26_AppliedOnlyAfterLowercaseY ==
    samba.pc # "none" =>
        /\ PromptedInCsvOrder
        /\ \A i \in 1..Len(samba.prompted) :
              (samba.prompted[i] \in Invoked) = (samba.answers[i] = "y")

\* a run to its end over a file whose first and third row are of the selected
\* share and whose second row is of another: the first entry applied after
\* 'Y', the third skipped
C26_Witness ==
    /\ samba.pc = "done"
    /\ samba.selected_path = "X:\\Share"
    /\ samba.prompted = <<1, 3>>
    /\ samba.answers = <<"Y", "n">>
    /\ Invoked = {1}
    /\ samba.rows[2].Path = "X:\\Data"

\* a step of the selection loop that ends it with 'return': the input is 0
EndsOnZero ==
    /\ samba'.pc = "exit"
    /\ ParseInt(samba'.input) = IntValue(0)
    /\ samba'.invoked = <<>>
    /\ samba'.prompted = <<>>
    /\ samba'.selected_path = "none"

\* a step that ends it with 'break': the input is an integer in
\* 1..len(unique_paths), and the path processed is unique_paths[selection - 1]
EndsOnShare ==
    /\ samba'.pc \in {"prompt", "raise"}
    /\ ParseInt(samba'.input).kind = "int"
    /\ ParseInt(samba'.input).value \in 1..Len(samba.unique_paths)
    /\ samba'.selected_path = samba.unique_paths[ParseInt(samba'.input).value]
    /\ samba'.invoked = <<>>

\* a step that prompts again: the input is no integer, or one that is neither
\* 0 nor in the range, and nothing but the number of prompts and the input
\* read changes
PromptsAgain ==
    /\ samba'.pc = "select"
    /\ \/ ParseInt(samba'.input).kind = "ValueError"
       \/ /\ ParseInt(samba'.input).kind = "int"
          /\ ParseInt(samba'.input).value \notin 0..Len(samba.unique_paths)
    /\ samba' = [samba EXCEPT !.asked = samba.asked + 1, !.input = samba'.input]

\* C27: the selection loop ends only on the input 0, after which the program
\* returns and samba-tool is never invoked, or on an integer in
\* 1..len(unique_paths), after which the path processed is
\* unique_paths[selection - 1]; any other input prompts again and changes
\* nothing, however many inputs came before
C27_SelectionLoop ==
    /\ [][samba.pc = "select" => (EndsOnZero \/ EndsOnShare \/ PromptsAgain)]_vars
    /\ [](samba.pc = "exit" => (samba.invoked = <<>> /\ ~ENABLED NextSamba))
    /\ [](samba.pc = "prompt" =>
            /\ samba.selection.kind = "int"
            /\ samba.selection.value \in 1..Len(samba.unique_paths)
            /\ samba.selected_path = samba.unique_paths[samba.selection.value]
            /\ SeqToSet(samba.prompted) \subseteq RowsOfSelected)

\* the third input, ' 2 ', ends the loop after two inputs that prompted again;
\* the second share is processed
C27_Witness ==
    /\ samba.pc = "prompt"
    /\ samba.asked = 3
    /\ samba.input = " 2 "
    /\ Len(samba.unique_paths) = 2
    /\ samba.selected_path = samba.unique_paths[2]

\* the loop left by the input 0 after an input that prompted again
C27_ExitWitness ==
    /\ samba.pc = "exit"
    /\ samba.asked = 2

====
